---------------------------- MODULE Spec2Model ----------------------------
(***************************************************************************)
(* A model of the unicode-info generator.                                  *)
(*                                                                         *)
(*   SpecSplit  src/src/table.rs            split_table and its helpers    *)
(*   SpecBmp    src/src/bmp.rs              generate_bmp_info              *)
(*   SpecParse  src/src/code_point_table.rs UnicodeDataParse and           *)
(*                                          generate_code_point_table      *)
(*                                                                         *)
(*   SpecFold   src/src/case_folding.rs     CaseFoldingParse and           *)
(*                                          process_case_folding           *)
(*   SpecSpecial src/src/special_casing.rs  SpecialCasing and              *)
(*                                          process_special_casing         *)
(*   SpecNonBmp src/src/non_bmp.rs          generate_non_bmp_info          *)
(*   SpecDerived src/src/derived_core_properties.rs                        *)
(*                                          DerivedCoreProperties and      *)
(*                                          process_derived_core_properties *)
(*                                                                         *)
(* The programs are independent; each specification starts the variables   *)
(* of the others in their idle value and never changes them.               *)
(***************************************************************************)
EXTENDS Integers, Sequences, FiniteSets, TLC

VARIABLES
    \* ---- split_table (table.rs)
    t,                \* the input vector
    pc,               \* "idle" | "start" | "loop" | "done" | "panic"
    max_shift,        \* table.rs:177
    candidate_shift,  \* table.rs:180, the next candidate to try
    best,             \* table.rs:167, the current best TableSplit
    best_bytes,       \* table.rs:164
    tried,            \* the TableSplit built by the latest iteration
    \* ---- generate_bmp_info (bmp.rs)
    code_point_table,    \* the registry: code -> CodePointInfo
    derived_properties,  \* [id_start, id_continue]
    unvisited,           \* codes the registry iterator has not yielded yet
    table,               \* bmp.rs:122
    index,               \* bmp.rs:131
    cache,               \* bmp.rs:134
    bpc,                 \* "idle" | "loop" | "done" | the failed assertion
    \* ---- UnicodeDataParse, generate_code_point_table (code_point_table.rs)
    file,            \* the lines of UnicodeData.txt
    lines,           \* self.lines: the lines not read yet
    within_range,    \* self.within_range
    code_point_map,  \* code_point_table.rs:249
    yielded,         \* every item next() has returned, in order
    heads,           \* numbers of the lines read at code_point_table.rs:90
    ppc,             \* "idle" | "loop" | "done" | the panic message
    \* ---- CaseFoldingParse, process_case_folding (case_folding.rs)
    cf_file,                     \* the lines of CaseFolding.txt
    cf_lines,                    \* self.lines: the lines not read yet
    cf_yielded,                  \* every pair next() has returned, in order
    folding_map,                 \* case_folding.rs:151
    reverse_folding_map,         \* case_folding.rs:157
    all_codes_with_equivalents,  \* case_folding.rs:181
    bmp_folding_table,           \* case_folding.rs:210
    bmp_folding_cache,           \* case_folding.rs:213
    bmp_folding_index,           \* case_folding.rs:223
    cf_todo,                     \* entries of the loop at 225 not visited yet
    fpc,             \* "idle" | "read" | "intern" | "done" | the panic message
    \* ---- SpecialCasing, process_special_casing (special_casing.rs)
    bmp,                       \* the BMPInfo passed in
    sc_file,                   \* the lines of SpecialCasing.txt
    sc_lines,                  \* self.lines: the lines not read yet
    unconditional_tolower,     \* special_casing.rs:158
    unconditional_toupper,     \* special_casing.rs:159
    conditional_tolower,       \* special_casing.rs:163
    conditional_toupper,       \* special_casing.rs:164
    lang_conditional_tolower,  \* special_casing.rs:169
    lang_conditional_toupper,  \* special_casing.rs:170
    scpc,            \* "idle" | "loop" | "done" | the panic message
    \* ---- generate_non_bmp_info (non_bmp.rs)
    nb_code_point_table,  \* the registry passed in
    nb_derived,           \* the result of process_derived_core_properties()
    nb_unvisited,         \* codes the registry iterator has not yielded yet
    lowercase_map,        \* non_bmp.rs:45
    uppercase_map,        \* non_bmp.rs:46
    space_set,            \* non_bmp.rs:47
    id_start_set,         \* non_bmp.rs:48
    id_continue_set,      \* non_bmp.rs:49
    npc,             \* "idle" | "loop" | "done" | the panic message
    \* ---- DerivedCoreProperties and process_derived_core_properties
    \*      (derived_core_properties.rs)
    dc_file,          \* the lines of DerivedCoreProperties.txt
    dc_lines,         \* DerivedCoreProperties.lines: the lines not read yet
    dc_within_range,  \* DerivedCoreProperties.within_range
    dc_yielded,       \* the items next() has returned, with their line
    id_start,         \* derived_core_properties.rs:124
    id_continue,      \* derived_core_properties.rs:125
    dpc               \* "idle" | "loop" | "done" | the panic message

splitVars == <<t, pc, max_shift, candidate_shift, best, best_bytes, tried>>

bmpVars ==
    <<code_point_table, derived_properties, unvisited, table, index, cache, bpc>>

parseVars ==
    <<file, lines, within_range, code_point_map, yielded, heads, ppc>>

foldVars ==
    <<cf_file, cf_lines, cf_yielded, folding_map, reverse_folding_map,
      all_codes_with_equivalents, bmp_folding_table, bmp_folding_cache,
      bmp_folding_index, cf_todo, fpc>>

specialVars ==
    <<bmp, sc_file, sc_lines, unconditional_tolower, unconditional_toupper,
      conditional_tolower, conditional_toupper, lang_conditional_tolower,
      lang_conditional_toupper, scpc>>

nonBmpVars ==
    <<nb_code_point_table, nb_derived, nb_unvisited, lowercase_map,
      uppercase_map, space_set, id_start_set, id_continue_set, npc>>

derivedVars ==
    <<dc_file, dc_lines, dc_within_range, dc_yielded, id_start, id_continue,
      dpc>>

vars ==
    <<splitVars, bmpVars, parseVars, foldVars, specialVars, nonBmpVars,
      derivedVars>>

---------------------------------------------------------------------------
(* Bounds of the model *)

\* Longest input vector given to split_table.
MaxLen == 8

\* Most records in a registry given to generate_bmp_info.
MaxRecords == 3

\* Most lines in a UnicodeData.txt given to the registry reader.
MaxLines == 3

\* Most lines in a CaseFolding.txt given to the case-folding reader.
MaxFoldLines == 3

\* Most lines in a SpecialCasing.txt given to the special-casing reader.
MaxSpecialLines == 3

\* Most records in a registry given to generate_non_bmp_info.
MaxNonBmpRecords == 3

\* The largest number of lines of a DerivedCoreProperties.txt.
MaxDerivedLines == 3

---------------------------------------------------------------------------
(* Integer helpers *)

RECURSIVE Pow2(_)
Pow2(n) == IF n = 0 THEN 1 ELSE 2 * Pow2(n - 1)

\* x << n and x >> n on values far below the word size.
ShiftLeft(x, n) == x * Pow2(n)
ShiftRight(x, n) == x \div Pow2(n)

\* x & ((1 << n) - 1)
MaskLow(x, n) == x % Pow2(n)

---------------------------------------------------------------------------
(* table.rs *)

U8_MAX == 255
U16_MAX == 65535

\* TLC's integers end at 2^31 - 1.  u32::MAX (2^32 - 1) and usize::MAX
\* (2^64 - 1) are only ever compared against in the code modelled here, and
\* every value they are compared with stays far below 2^31, so both are
\* written as the largest integer TLC has.
U32_MAX == 2147483647
USIZE_MAX == 2147483647

\* value <= u32::MAX as usize, for a value that fits TLC's integers:
\* value <= 2^32 - 1  iff  (value >> 16) <= 0xFFFF.
FitsU32(value) == (value \div (U16_MAX + 1)) <= U16_MAX

\* data.iter().fold(0, |max, v| std::cmp::max(max, *v))
RECURSIVE FoldMax(_, _)
FoldMax(max, data) ==
    IF data = <<>> THEN max
    ELSE FoldMax(IF Head(data) > max THEN Head(data) ELSE max, Tail(data))

\* A comparison that excludes the limit itself.
FitsU8Exclusive(max_data) == max_data < U8_MAX

\* The comparison that selects U8 (table.rs:27).
FitsU8(max_data) == max_data <= U8_MAX

\* The comparison that selects U16 (table.rs:29).
FitsU16(max_data) == max_data <= U16_MAX

\* get_element_type: "panic" stands for a failed assertion or the panic! arm.
get_element_type(data) ==
    IF ~(Len(data) > 0) THEN "panic"
    ELSE LET max_data == FoldMax(0, data) IN
         IF ~FitsU32(max_data) THEN "panic"
         ELSE IF FitsU8(max_data) THEN "U8"
         ELSE IF FitsU16(max_data) THEN "U16"
         ELSE IF FitsU32(max_data) THEN "U32"
         ELSE "panic"

get_size(ty) ==
    CASE ty = "U8" -> 1
      [] ty = "U16" -> 2
      [] ty = "U32" -> 4

\* usize::next_power_of_two: the smallest power of two >= n (1 for n = 0).
RECURSIVE NextPow2From(_, _)
NextPow2From(p, n) == IF p >= n THEN p ELSE NextPow2From(2 * p, n)
next_power_of_two(n) == NextPow2From(1, n)

\* trailing_zeros of a power of two.
RECURSIVE trailing_zeros(_)
trailing_zeros(p) == IF p % 2 = 1 THEN 0 ELSE 1 + trailing_zeros(p \div 2)

\* The logarithm rounded down instead of up.
RECURSIVE FloorLog2(_)
FloorLog2(n) == IF n <= 1 THEN 0 ELSE 1 + FloorLog2(n \div 2)
compute_maximum_shift_floor(data) ==
    LET tz == FloorLog2(Len(data)) IN
    IF tz >= 1 THEN {[panic |-> FALSE, value |-> tz - 1]}
    ELSE {[panic |-> TRUE, value |-> 0], [panic |-> FALSE, value |-> U32_MAX]}

\* compute_maximum_shift: `trailing_zeros() - 1` is a u32 subtraction.  When
\* it underflows, a build with overflow checks panics and a build without
\* them wraps to u32::MAX; both outcomes are kept.
compute_maximum_shift(data) ==
    LET tz == trailing_zeros(next_power_of_two(Len(data))) IN
    IF tz >= 1 THEN {[panic |-> FALSE, value |-> tz - 1]}
    ELSE {[panic |-> TRUE, value |-> 0], [panic |-> FALSE, value |-> U32_MAX]}

\* The position pushed as it is, without the downshift.
Index1EntryUnshifted(chunk_index, shift) == chunk_index

\* table.rs:211, the entry pushed to index1.
Index1Entry(chunk_index, shift) == ShiftRight(chunk_index, shift)

\* A key that is the chunk's starting position instead of its content.
CacheKeyByPosition(bin, i) == i

\* A key that is the slice as a raw pointer: its address and its length.
CacheKeyByAddress(bin, i) == <<i, Len(bin)>>

\* table.rs:195, the key under which a chunk is looked up and cached.
CacheKey(bin, i) == bin

\* table.rs:192-212, the loop over the chunks of t, from offset i (0-based).
\* bincache is a function from cache keys to positions in index2.
RECURSIVE ChunkLoop(_, _, _, _, _, _)
ChunkLoop(data, shift, i, index1, index2, bincache) ==
    LET size == ShiftLeft(1, shift) IN
    IF i >= Len(data)
    THEN [panic |-> FALSE, index1 |-> index1, index2 |-> index2]
    ELSE IF i + size > Len(data)
    THEN \* &t[i..i + size] is out of range
         [panic |-> TRUE, index1 |-> index1, index2 |-> index2]
    ELSE LET bin == SubSeq(data, i + 1, i + size)
             key == CacheKey(bin, i)
             hit == key \in DOMAIN bincache
             \* `index` in the source
             chunk_index == IF hit THEN bincache[key] ELSE Len(index2)
         IN  ChunkLoop(data, shift, i + size,
                       Append(index1, Index1Entry(chunk_index, shift)),
                       IF hit THEN index2 ELSE index2 \o bin,
                       IF hit THEN bincache
                       ELSE (key :> chunk_index) @@ bincache)

\* The body of one iteration of the loop over candidate shifts, up to the
\* byte count (table.rs:182-222).
BuildSplit(data, shift) ==
    LET r == ChunkLoop(data, shift, 0, <<>>, <<>>, <<>>) IN
    IF r.panic THEN [panic |-> TRUE]
    ELSE LET index1_elem_type == get_element_type(r.index1)
             index2_elem_type == get_element_type(r.index2)
         IN  IF index1_elem_type = "panic" \/ index2_elem_type = "panic"
             THEN [panic |-> TRUE]
             ELSE [panic |-> FALSE,
                   split |-> [index1 |-> r.index1,
                              index1_elem_type |-> index1_elem_type,
                              index2 |-> r.index2,
                              index2_elem_type |-> index2_elem_type,
                              shift |-> shift],
                   bytes |-> get_size(index1_elem_type) * Len(r.index1)
                             + get_size(index2_elem_type) * Len(r.index2)]

\* A comparison that lets a later shift of equal cost replace the best.
BetterOrEqual(bytes, current_best) == bytes <= current_best

\* table.rs:223
Better(bytes, current_best) == bytes < current_best

\* table.rs:167-173
EmptySplit ==
    [index1 |-> <<>>, index1_elem_type |-> "U8",
     index2 |-> <<>>, index2_elem_type |-> "U8", shift |-> 0]

\* Input vectors: every vector of at most MaxLen elements over one of
\* these sets of values, which sit on both sides of the u8 and u16 limits.
Palettes ==
    {{0, 1}, {0, 255}, {255, 256}, {256, 65535}, {65535, 65536}, {0, 1, 256}}

SeqsUpTo(S, n) == UNION {[1..k -> S] : k \in 0..n}

Inputs == UNION {SeqsUpTo(p, MaxLen) : p \in Palettes}

\* table.rs:156-177: the length assertion (true of every vector here), the
\* initial best and compute_maximum_shift.
Start ==
    /\ pc = "start"
    /\ \E m \in compute_maximum_shift(t) :
          /\ pc' = IF m.panic THEN "panic" ELSE "loop"
          /\ max_shift' = m.value
    /\ UNCHANGED <<t, candidate_shift, best, best_bytes, tried>>
    /\ UNCHANGED <<bmpVars, parseVars, foldVars, specialVars, nonBmpVars>>
    /\ UNCHANGED derivedVars

\* table.rs:180-233: one iteration of `for candidate_shift in 0..=max_shift`;
\* after the last one the function returns best (table.rs:235-255).
TryShift ==
    /\ pc = "loop"
    /\ candidate_shift <= max_shift
    /\ LET b == BuildSplit(t, candidate_shift) IN
       IF b.panic
       THEN /\ pc' = "panic"
            /\ UNCHANGED <<candidate_shift, best, best_bytes, tried>>
       ELSE /\ tried' = b.split
            /\ IF Better(b.bytes, best_bytes)
               THEN best' = b.split /\ best_bytes' = b.bytes
               ELSE UNCHANGED <<best, best_bytes>>
            /\ candidate_shift' = candidate_shift + 1
            /\ pc' = IF candidate_shift = max_shift THEN "done" ELSE "loop"
    /\ UNCHANGED <<t, max_shift>>
    /\ UNCHANGED <<bmpVars, parseVars, foldVars, specialVars, nonBmpVars>>
    /\ UNCHANGED derivedVars

---------------------------------------------------------------------------
(* constants.rs, types.rs *)

MAX_BMP == 65535

CHARACTER_TABULATION == 9
LINE_TABULATION == 11
FORM_FEED == 12
CARRIAGE_RETURN == 13
LINE_FEED == 10
SPACE == 32
NO_BREAK_SPACE == 160
ZERO_WIDTH_NON_JOINER == 8204
ZERO_WIDTH_JOINER == 8205
LINE_SEPARATOR == 8232
PARAGRAPH_SEPARATOR == 8233
ZERO_WIDTH_NO_BREAK_SPACE == 65279

WHITE_SPACE ==
    {CHARACTER_TABULATION, LINE_TABULATION, FORM_FEED, SPACE, NO_BREAK_SPACE,
     ZERO_WIDTH_NO_BREAK_SPACE}

LINE_TERMINATOR ==
    {LINE_FEED, CARRIAGE_RETURN, LINE_SEPARATOR, PARAGRAPH_SEPARATOR}

COMPATIBILITY_IDENTIFIER_PART == {ZERO_WIDTH_NON_JOINER, ZERO_WIDTH_JOINER}

\* 1 << 0, 1 << 1, 1 << 2
FLAG_SPACE == 1
FLAG_UNICODE_ID_START == 2
FLAG_UNICODE_ID_CONTINUE_ONLY == 4

\* a | b and a & b on bytes.
RECURSIVE BitOrN(_, _, _)
BitOrN(a, b, n) ==
    IF n = 0 THEN 0
    ELSE (IF a % 2 = 1 \/ b % 2 = 1 THEN 1 ELSE 0)
         + 2 * BitOrN(a \div 2, b \div 2, n - 1)
RECURSIVE BitAndN(_, _, _)
BitAndN(a, b, n) ==
    IF n = 0 THEN 0
    ELSE (IF a % 2 = 1 /\ b % 2 = 1 THEN 1 ELSE 0)
         + 2 * BitAndN(a \div 2, b \div 2, n - 1)
BitOr(a, b) == BitOrN(a, b, 8)
BitAnd(a, b) == BitAndN(a, b, 8)

\* Flags is a byte; Flags(0) is 0.
is_space(flags) == BitAnd(flags, FLAG_SPACE) # 0
is_unicode_id_start(flags) == BitAnd(flags, FLAG_UNICODE_ID_START) # 0
is_unicode_id_continue_only(flags) ==
    BitAnd(flags, FLAG_UNICODE_ID_CONTINUE_ONLY) # 0

\* A setter that ors in the neighbouring flag.
set_space_as_id_start(flags) == BitOr(flags, FLAG_UNICODE_ID_START)

set_space(flags) == BitOr(flags, FLAG_SPACE)
set_unicode_id_start(flags) == BitOr(flags, FLAG_UNICODE_ID_START)
set_unicode_id_continue_only(flags) ==
    BitOr(flags, FLAG_UNICODE_ID_CONTINUE_ONLY)

---------------------------------------------------------------------------
(* bmp.rs *)

\* `x as u16`
AsU16(x) == x % 65536

\* The operands the other way round.
wrapping_sub_reversed(a, b) == (b - a + 65536) % 65536

\* u16::wrapping_sub and u16::wrapping_add
wrapping_sub(a, b) == (a - b + 65536) % 65536
wrapping_add(a, b) == (a + b) % 65536

\* CharacterInfo::all_zeroes
all_zeroes == [upper_delta |-> 0, lower_delta |-> 0, flags |-> 0]

\* CharacterInfo::apply; "panic" when the assertion on code fails.
apply(self, code) ==
    IF ~(code <= MAX_BMP) THEN "panic"
    ELSE [upper |-> wrapping_add(AsU16(code), self.upper_delta),
          lower |-> wrapping_add(AsU16(code), self.lower_delta),
          flags |-> self.flags]

\* A test of the category alone.
SpaceFlagsByCategory(flags, code, category) ==
    IF category = "Zs" THEN set_space(flags) ELSE flags

\* bmp.rs:154-156
SpaceFlags(flags, code, category) ==
    IF category = "Zs" \/ code \in WHITE_SPACE \/ code \in LINE_TERMINATOR
    THEN set_space(flags)
    ELSE flags

\* Two independent tests instead of if / else if.
IdFlagsIndependent(flags, code, derived) ==
    LET f == IF code \in derived.id_start
             THEN set_unicode_id_start(flags) ELSE flags
    IN  IF code \in derived.id_continue
           \/ code \in COMPATIBILITY_IDENTIFIER_PART
        THEN set_unicode_id_continue_only(f)
        ELSE f

\* bmp.rs:158-164
IdFlags(flags, code, derived) ==
    IF code \in derived.id_start
    THEN set_unicode_id_start(flags)
    ELSE IF code \in derived.id_continue
            \/ code \in COMPATIBILITY_IDENTIFIER_PART
    THEN set_unicode_id_continue_only(flags)
    ELSE flags

\* bmp.rs:149-170, the CharacterInfo of one code point.
Item(code, info, derived) ==
    [upper_delta |-> wrapping_sub(AsU16(info.uppercase), AsU16(code)),
     lower_delta |-> wrapping_sub(AsU16(info.lowercase), AsU16(code)),
     flags |-> IdFlags(SpaceFlags(0, code, info.category), code, derived)]

\* A cache that starts empty.
EmptyCache == <<>>

\* bmp.rs:134-135, the cache before the loop.
SeededCache == (all_zeroes :> 0)

\* bmp.rs:131, vec![0u32; (MAX_BMP + 1) as usize]: len entries, all 0 but
\* those in `set`.
ZeroedIndex == [len |-> MAX_BMP + 1, set |-> <<>>]

\* index[c], for c < index.len
IndexAt(ix, c) == IF c \in DOMAIN ix.set THEN ix.set[c] ELSE 0

SeqContains(seq, x) == \E k \in DOMAIN seq : seq[k] = x

\* Records a registry may hold, one per code:
\*   U+0000, U+0020 SPACE, U+0041 A, U+0042 B, U+0061 a, U+200C ZWNJ,
\*   U+3000 IDEOGRAPHIC SPACE, a record at U+FFFF whose lowercase is U+0000,
\*   a BMP record (U+0250) whose uppercase is outside the BMP,
\*   U+10400 DESERET CAPITAL LETTER LONG I, U+0009 CHARACTER TABULATION,
\*   U+2028 LINE SEPARATOR, and a record of category Zs outside the BMP.
RecordPool ==
    (0 :> [category |-> "Cc", uppercase |-> 0, lowercase |-> 0])
    @@ (32 :> [category |-> "Zs", uppercase |-> 32, lowercase |-> 32])
    @@ (65 :> [category |-> "Lu", uppercase |-> 65, lowercase |-> 97])
    @@ (66 :> [category |-> "Lu", uppercase |-> 66, lowercase |-> 98])
    @@ (97 :> [category |-> "Ll", uppercase |-> 65, lowercase |-> 97])
    @@ (8204 :> [category |-> "Cf", uppercase |-> 8204, lowercase |-> 8204])
    @@ (12288 :> [category |-> "Zs", uppercase |-> 12288, lowercase |-> 12288])
    @@ (65535 :> [category |-> "Lu", uppercase |-> 65535, lowercase |-> 0])
    @@ (592 :> [category |-> "Ll", uppercase |-> 66560, lowercase |-> 592])
    @@ (66560 :> [category |-> "Lu", uppercase |-> 66560, lowercase |-> 66600])
    @@ (9 :> [category |-> "Cc", uppercase |-> 9, lowercase |-> 9])
    @@ (8232 :> [category |-> "Zl", uppercase |-> 8232, lowercase |-> 8232])
    @@ (126976 :> [category |-> "Zs", uppercase |-> 126976,
                   lowercase |-> 126976])

\* Codes the derived sets may hold.
IdSample == {65, ZERO_WIDTH_NON_JOINER}

Registries ==
    {[c \in codes |-> RecordPool[c]] :
        codes \in {cs \in SUBSET DOMAIN RecordPool : Cardinality(cs) <= MaxRecords}}

\* bmp.rs:137-140: the iterator yields a record, in no particular order, and
\* the filter drops it.
FilterOut ==
    /\ bpc = "loop"
    /\ \E code \in unvisited :
          /\ ~(code <= MAX_BMP)
          /\ unvisited' = unvisited \ {code}
    /\ UNCHANGED <<code_point_table, derived_properties, table, index, cache, bpc>>
    /\ UNCHANGED <<splitVars, parseVars, foldVars, specialVars, nonBmpVars>>
    /\ UNCHANGED derivedVars

\* bmp.rs:137-183: the iterator yields a record that passes the filter, and
\* the loop body runs on it.
Visit ==
    /\ bpc = "loop"
    /\ \E code \in unvisited :
          /\ code <= MAX_BMP
          /\ LET info == code_point_table[code]
                 item == Item(code, info, derived_properties)
                 miss == item \notin DOMAIN cache
                 i == IF miss THEN Len(table) ELSE cache[item]
             IN  IF ~(info.uppercase <= MAX_BMP)
                 THEN /\ bpc' = "assert!(uppercase <= MAX_BMP)"
                      /\ UNCHANGED <<unvisited, table, index, cache>>
                 ELSE IF ~(info.lowercase <= MAX_BMP)
                 THEN /\ bpc' = "assert!(lowercase <= MAX_BMP)"
                      /\ UNCHANGED <<unvisited, table, index, cache>>
                 ELSE IF miss /\ SeqContains(table, item)
                 THEN /\ bpc' = "assert!(!table.contains(&item))"
                      /\ UNCHANGED <<unvisited, table, index, cache>>
                 ELSE IF ~(code < index.len)
                 THEN /\ bpc' = "index out of bounds"
                      /\ cache' = IF miss THEN (item :> i) @@ cache ELSE cache
                      /\ table' = IF miss THEN Append(table, item) ELSE table
                      /\ UNCHANGED <<unvisited, index>>
                 ELSE /\ cache' = IF miss THEN (item :> i) @@ cache ELSE cache
                      /\ table' = IF miss THEN Append(table, item) ELSE table
                      /\ index' = [index EXCEPT !.set = (code :> i) @@ @]
                      /\ unvisited' = unvisited \ {code}
                      /\ bpc' = bpc
    /\ UNCHANGED <<code_point_table, derived_properties>>
    /\ UNCHANGED <<splitVars, parseVars, foldVars, specialVars, nonBmpVars>>
    /\ UNCHANGED derivedVars

\* bmp.rs:185: the iterator is exhausted and BMPInfo { table, index } is
\* returned.
Return ==
    /\ bpc = "loop"
    /\ unvisited = {}
    /\ bpc' = "done"
    /\ UNCHANGED <<code_point_table, derived_properties, unvisited, table, index, cache>>
    /\ UNCHANGED <<splitVars, parseVars, foldVars, specialVars, nonBmpVars>>
    /\ UNCHANGED derivedVars

\* The elements of a finite set of numbers, ascending.
RECURSIVE Ascending(_)
Ascending(S) ==
    IF S = {} THEN <<>>
    ELSE LET m == CHOOSE x \in S : \A y \in S : x <= y
         IN  <<m>> \o Ascending(S \ {m})

\* An iteration that, when the record is in the cache, takes the last
\* position of the table instead of the cached one.
VisitStepLastPosition(st, code, registry, derived) ==
    LET info == registry[code]
        item == Item(code, info, derived)
        miss == item \notin DOMAIN st.cache
        i == IF miss THEN Len(st.table) ELSE Len(st.table) - 1
    IN  IF st.bpc # "loop" \/ ~(code <= MAX_BMP) THEN st
        ELSE IF ~(info.uppercase <= MAX_BMP)
        THEN [st EXCEPT !.bpc = "assert!(uppercase <= MAX_BMP)"]
        ELSE IF ~(info.lowercase <= MAX_BMP)
        THEN [st EXCEPT !.bpc = "assert!(lowercase <= MAX_BMP)"]
        ELSE IF miss /\ SeqContains(st.table, item)
        THEN [st EXCEPT !.bpc = "assert!(!table.contains(&item))"]
        ELSE [table |-> IF miss THEN Append(st.table, item) ELSE st.table,
              cache |-> IF miss THEN (item :> i) @@ st.cache ELSE st.cache,
              index |-> [st.index EXCEPT !.set = (code :> i) @@ @],
              bpc |-> st.bpc]

\* bmp.rs:137-183 as a function: one iteration of the loop, on the record of
\* `code`, from the loop state st = [table, index, cache, bpc].
VisitStep(st, code, registry, derived) ==
    LET info == registry[code]
        item == Item(code, info, derived)
        miss == item \notin DOMAIN st.cache
        i == IF miss THEN Len(st.table) ELSE st.cache[item]
    IN  IF st.bpc # "loop" \/ ~(code <= MAX_BMP) THEN st
        ELSE IF ~(info.uppercase <= MAX_BMP)
        THEN [st EXCEPT !.bpc = "assert!(uppercase <= MAX_BMP)"]
        ELSE IF ~(info.lowercase <= MAX_BMP)
        THEN [st EXCEPT !.bpc = "assert!(lowercase <= MAX_BMP)"]
        ELSE IF miss /\ SeqContains(st.table, item)
        THEN [st EXCEPT !.bpc = "assert!(!table.contains(&item))"]
        ELSE [table |-> IF miss THEN Append(st.table, item) ELSE st.table,
              cache |-> IF miss THEN (item :> i) @@ st.cache ELSE st.cache,
              index |-> [st.index EXCEPT !.set = (code :> i) @@ @],
              bpc |-> st.bpc]

\* generate_bmp_info (bmp.rs:114-186) when the registry's iterator delivers
\* the records in the order `order`: the final [table, index, cache, bpc].
RECURSIVE VisitAll(_, _, _, _)
VisitAll(st, order, registry, derived) ==
    IF order = <<>> THEN [st EXCEPT !.bpc = IF @ = "loop" THEN "done" ELSE @]
    ELSE VisitAll(VisitStep(st, Head(order), registry, derived), Tail(order),
                  registry, derived)
generate_bmp_info(registry, derived, order) ==
    VisitAll([table |-> <<all_zeroes>>, index |-> ZeroedIndex,
              cache |-> SeededCache, bpc |-> "loop"],
             order, registry, derived)

---------------------------------------------------------------------------
(* Text helpers: strings are Rust's &str, restricted to ASCII *)

CharAt(s, i) == SubSeq(s, i, i)

\* str::split(sep).collect(): the fields of s, of which there is always at
\* least one.
RECURSIVE SplitFrom(_, _, _, _, _)
SplitFrom(s, sep, i, field, fields) ==
    IF i > Len(s) THEN Append(fields, field)
    ELSE IF CharAt(s, i) = sep
    THEN SplitFrom(s, sep, i + 1, "", Append(fields, field))
    ELSE SplitFrom(s, sep, i + 1, field \o CharAt(s, i), fields)
split(s, sep) == SplitFrom(s, sep, 1, "", <<>>)

\* str::split(pattern).collect() for a pattern of one or more characters.
RECURSIVE SplitStrFrom(_, _, _, _, _)
SplitStrFrom(s, sep, i, field, fields) ==
    IF i > Len(s) THEN Append(fields, field)
    ELSE IF i + Len(sep) - 1 <= Len(s) /\ SubSeq(s, i, i + Len(sep) - 1) = sep
    THEN SplitStrFrom(s, sep, i + Len(sep), "", Append(fields, field))
    ELSE SplitStrFrom(s, sep, i + 1, field \o CharAt(s, i), fields)
split_str(s, sep) == SplitStrFrom(s, sep, 1, "", <<>>)

starts_with(s, prefix) ==
    Len(s) >= Len(prefix) /\ SubSeq(s, 1, Len(prefix)) = prefix

ends_with(s, suffix) ==
    Len(s) >= Len(suffix)
    /\ SubSeq(s, Len(s) - Len(suffix) + 1, Len(s)) = suffix

\* &s[from..to]: [ok |-> FALSE] when from > to or to > len (to = len - 8
\* underflows to a huge value, or panics at once, when len < 8).
Slice(s, from, to) ==
    IF to < 0 \/ from > to \/ to > Len(s) THEN [ok |-> FALSE]
    ELSE [ok |-> TRUE, value |-> SubSeq(s, from + 1, to)]

HexDigit ==
    ("0" :> 0) @@ ("1" :> 1) @@ ("2" :> 2) @@ ("3" :> 3) @@ ("4" :> 4)
    @@ ("5" :> 5) @@ ("6" :> 6) @@ ("7" :> 7) @@ ("8" :> 8) @@ ("9" :> 9)
    @@ ("A" :> 10) @@ ("B" :> 11) @@ ("C" :> 12) @@ ("D" :> 13)
    @@ ("E" :> 14) @@ ("F" :> 15)
    @@ ("a" :> 10) @@ ("b" :> 11) @@ ("c" :> 12) @@ ("d" :> 13)
    @@ ("e" :> 14) @@ ("f" :> 15)

\* u32::from_str_radix(src, 16): an optional '+', then at least one hex
\* digit; a value of 2^32 or more is an error.
RECURSIVE HexFrom(_, _, _)
HexFrom(s, i, acc) ==
    IF i > Len(s) THEN [ok |-> TRUE, value |-> acc]
    ELSE IF CharAt(s, i) \notin DOMAIN HexDigit THEN [ok |-> FALSE]
    ELSE IF acc >= 268435456 THEN [ok |-> FALSE]
    ELSE HexFrom(s, i + 1, acc * 16 + HexDigit[CharAt(s, i)])
from_str_radix_16(src) ==
    LET digits == IF starts_with(src, "+") THEN SubSeq(src, 2, Len(src))
                  ELSE src
    IN  IF digits = "" THEN [ok |-> FALSE] ELSE HexFrom(digits, 1, 0)

\* str::trim, for the space character.
RECURSIVE trim_start(_)
trim_start(s) ==
    IF s # "" /\ CharAt(s, 1) = " " THEN trim_start(SubSeq(s, 2, Len(s)))
    ELSE s
RECURSIVE trim_end(_)
trim_end(s) ==
    IF s # "" /\ CharAt(s, Len(s)) = " "
    THEN trim_end(SubSeq(s, 1, Len(s) - 1))
    ELSE s
trim(s) == trim_end(trim_start(s))

\* char::is_lowercase, for ASCII.
is_lowercase(c) ==
    c \in {"a", "b", "c", "d", "e", "f", "g", "h", "i", "j", "k", "l", "m",
           "n", "o", "p", "q", "r", "s", "t", "u", "v", "w", "x", "y", "z"}

\* Some(value); None is [some |-> FALSE].
Some(value) == [some |-> TRUE, value |-> value]

---------------------------------------------------------------------------
(* code_point_table.rs *)

\* to_case (code_point_table.rs:116-122)
to_case(case_field, code) ==
    IF case_field = "" THEN [ok |-> TRUE, value |-> code]
    ELSE from_str_radix_16(case_field)

\* A half-open range, code..last_code.
RangeExclusive(code, last_code) ==
    [start |-> code, end |-> last_code - 1, exhausted |-> FALSE]

\* code..=last_code (code_point_table.rs:152)
RangeInclusive(code, last_code) ==
    [start |-> code, end |-> last_code, exhausted |-> FALSE]

None == [some |-> FALSE]

\* UnicodeDataParse::next.  self is [within_range, lines, line_no], where
\* line_no is the number in the file of the first line of `lines`.  The result
\* is [self, item, heads] with item one of [kind |-> "Some", code, info, line],
\* [kind |-> "None"] and [kind |-> "panic", message]; heads are the numbers
\* of the lines read by the inner loop (code_point_table.rs:90).
RECURSIVE next(_, _)
next(self, seen) ==
    IF self.within_range.some
       /\ ~self.within_range.range.exhausted
       /\ self.within_range.range.start <= self.within_range.range.end
    THEN \* within_range.range.next() is Some(code)
         LET r == self.within_range.range
             r2 == IF r.start < r.end
                   THEN [r EXCEPT !.start = r.start + 1]
                   ELSE [r EXCEPT !.exhausted = TRUE]
         IN  [self |-> [self EXCEPT !.within_range.range = r2],
              item |-> [kind |-> "Some", code |-> r.start,
                        info |-> self.within_range.info,
                        line |-> self.within_range.line],
              heads |-> seen]
    ELSE IF self.within_range.some
    THEN next([self EXCEPT !.within_range = None], seen)
    ELSE IF self.lines = <<>>
    THEN [self |-> self, item |-> [kind |-> "None"], heads |-> seen]
    ELSE
    LET line == Head(self.lines)
        rest == Tail(self.lines)
        read == seen \cup {self.line_no}
        Panic(message) ==
            [self |-> self, item |-> [kind |-> "panic", message |-> message],
             heads |-> read]
        fields == split(line, ";")
    IN
    IF Len(fields) # 15 THEN Panic("assert_eq!(fields.len(), 15)")
    ELSE
    LET code == from_str_radix_16(fields[1])
        uppercase == to_case(fields[13], code.value)
        lowercase == to_case(fields[14], code.value)
    IN
    IF ~code.ok THEN Panic("hex code")
    ELSE IF ~uppercase.ok \/ ~lowercase.ok THEN Panic("bad hex code")
    ELSE
    LET info == [name |-> fields[2], category |-> fields[3],
                 alias |-> fields[11], uppercase |-> uppercase.value,
                 lowercase |-> lowercase.value]
    IN
    IF starts_with(info.name, "<") /\ ends_with(info.name, "First>")
    THEN IF rest = <<>> THEN Panic("second line in range")
         ELSE
         LET range_end_fields == split(Head(rest), ";")
             last_code == from_str_radix_16(range_end_fields[1])
             name == Slice(info.name, 1, Len(info.name) - 8)
         IN
         IF Len(range_end_fields) # 15
         THEN Panic("assert_eq!(fields.len(), 15)")
         ELSE IF ~last_code.ok THEN Panic("hex code")
         ELSE IF ~name.ok THEN Panic("slice index")
         ELSE next([within_range |->
                        [some |-> TRUE,
                         range |-> RangeInclusive(code.value, last_code.value),
                         info |-> [info EXCEPT !.name = name.value],
                         line |-> self.line_no],
                    lines |-> Tail(rest),
                    line_no |-> self.line_no + 2],
                   read)
    ELSE [self |-> [self EXCEPT !.lines = rest, !.line_no = self.line_no + 1],
          item |-> [kind |-> "Some", code |-> code.value, info |-> info,
                    line |-> self.line_no],
          heads |-> read]

\* Lines a UnicodeData.txt may hold: an ordinary line with a case field, an
\* ordinary line whose name starts with '<', the two lines of a range, a
\* "Last>" line whose code is below the range's first code, a line named
\* "<First>" alone, a line that lacks fields, and a comment line.
LinePool ==
    {"# UnicodeData.txt",
     "0041;LATIN CAPITAL LETTER A;Lu;0;L;;;;;N;;;;0061;",
     "0013;<control>;Cc;0;BN;;;;;N;DEVICE CONTROL THREE;;;;",
     "0010;<Han, First>;Lo;0;L;;;;;N;HAN;;;0030;",
     "0012;<Han, Last>;Lo;0;L;;;;;N;HAN;;;0030;",
     "000F;<Han, Last>;Lo;0;L;;;;;N;HAN;;;0030;",
     "0020;<First>;Lo;0;L;;;;;N;;;;;",
     "0041;LATIN CAPITAL LETTER A"}

Files == SeqsUpTo(LinePool, MaxLines)

\* The state of the parser as next() sees it.
Self ==
    [within_range |-> within_range, lines |-> lines,
     line_no |-> Len(file) - Len(lines) + 1]

\* generate_code_point_table (code_point_table.rs:251-253): next() returns
\* Some(code_point) and the loop body inserts it in the map.
Insert ==
    /\ ppc = "loop"
    /\ LET r == next(Self, heads) IN
       /\ r.item.kind = "Some"
       /\ within_range' = r.self.within_range
       /\ lines' = r.self.lines
       /\ heads' = r.heads
       /\ yielded' = Append(yielded, [code |-> r.item.code,
                                      info |-> r.item.info,
                                      line |-> r.item.line])
       /\ code_point_map' = (r.item.code :> r.item.info) @@ code_point_map
    /\ UNCHANGED <<file, ppc>>
    /\ UNCHANGED <<splitVars, bmpVars, foldVars, specialVars, nonBmpVars>>
    /\ UNCHANGED derivedVars

\* code_point_table.rs:255-257: next() returns None and the table is returned.
Finish ==
    /\ ppc = "loop"
    /\ LET r == next(Self, heads) IN
       /\ r.item.kind = "None"
       /\ within_range' = r.self.within_range
       /\ lines' = r.self.lines
       /\ heads' = r.heads
       /\ ppc' = "done"
    /\ UNCHANGED <<file, code_point_map, yielded>>
    /\ UNCHANGED <<splitVars, bmpVars, foldVars, specialVars, nonBmpVars>>
    /\ UNCHANGED derivedVars

\* next() panics, and generation with it.
Abort ==
    /\ ppc = "loop"
    /\ LET r == next(Self, heads) IN
       /\ r.item.kind = "panic"
       /\ heads' = r.heads
       /\ ppc' = r.item.message
    /\ UNCHANGED <<file, lines, within_range, code_point_map, yielded>>
    /\ UNCHANGED <<splitVars, bmpVars, foldVars, specialVars, nonBmpVars>>
    /\ UNCHANGED derivedVars

---------------------------------------------------------------------------
(* case_folding.rs *)

\* The statuses that are also accepted: common, simple and full.
AcceptedWithFull == {"C", "S", "F"}

\* case_folding.rs:49, the statuses that are accepted
AcceptedStatuses == {"C", "S"}

\* case_folding.rs:56, the statuses that are read and discarded
DiscardedStatuses == {"F", "T"}

\* CaseFoldingParse::next (case_folding.rs:28-60) on self.lines.  The result
\* is [lines, item]: the lines left and [kind |-> "Some", code, mapping],
\* [kind |-> "None"] or [kind |-> "panic", message].
RECURSIVE CaseFoldingParse_next(_)
CaseFoldingParse_next(self_lines) ==
    IF self_lines = <<>>
    THEN [lines |-> self_lines, item |-> [kind |-> "None"]]
    ELSE
    LET line == split(Head(self_lines), "#")[1]
        rest == Tail(self_lines)
        Panic(message) ==
            [lines |-> rest, item |-> [kind |-> "panic", message |-> message]]
        row == split_str(line, "; ")
    IN
    IF line = "" THEN CaseFoldingParse_next(rest)
    ELSE IF Len(row) # 4 THEN Panic("assert!(row.len() == 4)")
    ELSE IF row[2] \in AcceptedStatuses
    THEN LET code == from_str_radix_16(row[1])
             mapping == from_str_radix_16(row[3])
         IN  IF ~code.ok THEN Panic("hex code")
             ELSE IF ~mapping.ok THEN Panic("hex mapping")
             ELSE [lines |-> rest,
                   item |-> [kind |-> "Some", code |-> code.value,
                             mapping |-> mapping.value]]
    ELSE IF row[2] \notin DiscardedStatuses
    THEN Panic("should see (C)ommon, (S)imple, (F)ull, and (T)urkish foldings")
    ELSE CaseFoldingParse_next(rest)

\* reverse_folding_map.entry(mapping).or_insert_with(|| vec![]).push(code)
\* (case_folding.rs:163-166)
PushReverse(reverse, mapping, code) ==
    IF mapping \in DOMAIN reverse
    THEN [reverse EXCEPT ![mapping] = Append(@, code)]
    ELSE (mapping :> <<code>>) @@ reverse

\* filter_map(|c| if *c != *code { Some(*c) } else { None })
\* (case_folding.rs:194)
RECURSIVE Without(_, _)
Without(seq, code) ==
    IF seq = <<>> THEN <<>>
    ELSE IF Head(seq) # code THEN <<Head(seq)>> \o Without(Tail(seq), code)
    ELSE Without(Tail(seq), code)

\* case_folding.rs:186-202, the equivalents of one code; both lookups find
\* their key, since every value of folding_map is a key of
\* reverse_folding_map.
EquivsOf(code, forward, reverse) ==
    IF code \in DOMAIN forward
    THEN <<forward[code]>> \o Without(reverse[forward[code]], code)
    ELSE reverse[code]

\* case_folding.rs:171-173 and 181-205
AllCodesWithEquivalents(forward, reverse) ==
    LET all_folding_codes == Ascending(DOMAIN forward \cup DOMAIN reverse)
    IN  [k \in DOMAIN all_folding_codes |->
            <<all_folding_codes[k],
              EquivsOf(all_folding_codes[k], forward, reverse)>>]

\* The delta from the mapping to the code.
FoldDeltaReversed(code, mapping) == wrapping_sub(AsU16(code), AsU16(mapping))

\* case_folding.rs:232, Delta(u16::wrapping_sub(mapping, code))
FoldDelta(code, mapping) == wrapping_sub(AsU16(mapping), AsU16(code))

\* Lines a CaseFolding.txt may hold.
FoldLinePool ==
    {"# CaseFolding.txt",
     "0041; C; 0061; # LATIN CAPITAL LETTER A",
     "0345; C; 03B9; ",
     "0399; C; 03B9; ",
     "1E9E; S; 00DF; ",
     "1E9E; F; 0073 0073; ",
     "0049; T; 0131; ",
     "0061; C; 0062; ",
     "0041; C; 0041; ",
     "10400; C; 10400; ",
     "0250; C; 10400; ",
     "0041; X; 0061; "}

FoldFiles == SeqsUpTo(FoldLinePool, MaxFoldLines)

\* case_folding.rs:160-167: the reader yields a pair and the loop body records
\* it in both maps.
FoldInsert ==
    /\ fpc = "read"
    /\ \E r \in {CaseFoldingParse_next(cf_lines)} :
           /\ r.item.kind = "Some"
           /\ cf_lines' = r.lines
           /\ cf_yielded' = Append(cf_yielded,
                                   [code |-> r.item.code,
                                    mapping |-> r.item.mapping,
                                    line |-> Len(cf_file) - Len(r.lines)])
           /\ folding_map' = (r.item.code :> r.item.mapping) @@ folding_map
           /\ reverse_folding_map' =
                  PushReverse(reverse_folding_map, r.item.mapping, r.item.code)
    /\ UNCHANGED <<cf_file, all_codes_with_equivalents, bmp_folding_table,
                   bmp_folding_cache, bmp_folding_index, cf_todo, fpc>>
    /\ UNCHANGED <<splitVars, bmpVars, parseVars, specialVars, nonBmpVars>>
    /\ UNCHANGED derivedVars

\* case_folding.rs:45-58: an assertion or expect of the reader fails.
FoldAbort ==
    /\ fpc = "read"
    /\ \E r \in {CaseFoldingParse_next(cf_lines)} :
           /\ r.item.kind = "panic"
           /\ cf_lines' = r.lines
           /\ fpc' = r.item.message
    /\ UNCHANGED <<cf_file, cf_yielded, folding_map, reverse_folding_map,
                   all_codes_with_equivalents, bmp_folding_table,
                   bmp_folding_cache, bmp_folding_index, cf_todo>>
    /\ UNCHANGED <<splitVars, bmpVars, parseVars, specialVars, nonBmpVars>>
    /\ UNCHANGED derivedVars

\* case_folding.rs:169-225: the reader is exhausted; the list of equivalents
\* is built, and the table, cache and index of the interner are created.
FoldEquivalents ==
    /\ fpc = "read"
    /\ \E r \in {CaseFoldingParse_next(cf_lines)} :
           /\ r.item.kind = "None"
           /\ cf_lines' = r.lines
    /\ all_codes_with_equivalents' =
           AllCodesWithEquivalents(folding_map, reverse_folding_map)
    /\ bmp_folding_table' = <<0>>
    /\ bmp_folding_cache' = <<>>
    /\ bmp_folding_index' = ZeroedIndex
    /\ cf_todo' = Ascending({code \in DOMAIN folding_map : code <= MAX_BMP})
    /\ fpc' = "intern"
    /\ UNCHANGED <<cf_file, cf_yielded, folding_map, reverse_folding_map>>
    /\ UNCHANGED <<splitVars, bmpVars, parseVars, specialVars, nonBmpVars>>
    /\ UNCHANGED derivedVars

\* case_folding.rs:225-246: one iteration of the interning loop, over the
\* BMP keys of folding_map in ascending order.
FoldIntern ==
    /\ fpc = "intern"
    /\ cf_todo # <<>>
    /\ LET code == Head(cf_todo)
           mapping == folding_map[code]
           delta == FoldDelta(code, mapping)
           miss == delta \notin DOMAIN bmp_folding_cache
           i == IF miss THEN Len(bmp_folding_table)
                ELSE bmp_folding_cache[delta]
       IN  IF ~(mapping <= U16_MAX)
           THEN /\ fpc' = "valid because BMP"
                /\ UNCHANGED <<bmp_folding_table, bmp_folding_cache,
                               bmp_folding_index, cf_todo>>
           ELSE IF miss /\ SeqContains(bmp_folding_table, delta)
           THEN /\ fpc' = "assert!(!bmp_folding_table.contains(&delta))"
                /\ UNCHANGED <<bmp_folding_table, bmp_folding_cache,
                               bmp_folding_index, cf_todo>>
           ELSE /\ bmp_folding_cache' =
                       IF miss THEN (delta :> i) @@ bmp_folding_cache
                       ELSE bmp_folding_cache
                /\ bmp_folding_table' =
                       IF miss THEN Append(bmp_folding_table, delta)
                       ELSE bmp_folding_table
                /\ bmp_folding_index' =
                       [bmp_folding_index EXCEPT !.set = (code :> i) @@ @]
                /\ cf_todo' = Tail(cf_todo)
                /\ fpc' = fpc
    /\ UNCHANGED <<cf_file, cf_lines, cf_yielded, folding_map,
                   reverse_folding_map, all_codes_with_equivalents>>
    /\ UNCHANGED <<splitVars, bmpVars, parseVars, specialVars, nonBmpVars>>
    /\ UNCHANGED derivedVars

\* case_folding.rs:248-252: CaseFoldingData is returned.
FoldReturn ==
    /\ fpc = "intern"
    /\ cf_todo = <<>>
    /\ fpc' = "done"
    /\ UNCHANGED <<cf_file, cf_lines, cf_yielded, folding_map,
                   reverse_folding_map, all_codes_with_equivalents,
                   bmp_folding_table, bmp_folding_cache, bmp_folding_index,
                   cf_todo>>
    /\ UNCHANGED <<splitVars, bmpVars, parseVars, specialVars, nonBmpVars>>
    /\ UNCHANGED derivedVars

---------------------------------------------------------------------------
(* special_casing.rs *)

\* parse_next_codes (special_casing.rs:63-73) on the field at position i of
\* `fields`: [ok |-> TRUE, value] or [ok |-> FALSE, message].
RECURSIVE CodesFrom(_, _)
CodesFrom(codes, acc) ==
    IF codes = <<>> THEN [ok |-> TRUE, value |-> acc]
    ELSE LET code == from_str_radix_16(Head(codes))
         IN  IF ~code.ok \/ ~(code.value <= U16_MAX)
             THEN [ok |-> FALSE, message |-> "bad code in list"]
             ELSE CodesFrom(Tail(codes), Append(acc, code.value))
parse_next_codes(fields, i) ==
    IF i > Len(fields) THEN [ok |-> FALSE, message |-> "codes field"]
    ELSE LET field == trim(fields[i])
         IN  IF field = "" THEN [ok |-> TRUE, value |-> <<>>]
             ELSE CodesFrom(split(field, " "), <<>>)

\* A sorting that keeps the last language and the last context only.
RECURSIVE ConditionsKeepLast(_, _, _)
ConditionsKeepLast(conds, languages, contexts) ==
    IF conds = <<>>
    THEN [ok |-> TRUE, languages |-> languages, contexts |-> contexts]
    ELSE IF Head(conds) = "" THEN [ok |-> FALSE, message |-> "condition"]
    ELSE IF is_lowercase(CharAt(Head(conds), 1))
    THEN ConditionsKeepLast(Tail(conds), <<Head(conds)>>, contexts)
    ELSE ConditionsKeepLast(Tail(conds), languages, <<Head(conds)>>)

\* special_casing.rs:83-89: the condition tokens are sorted into languages
\* and contexts.
RECURSIVE Conditions(_, _, _)
Conditions(conds, languages, contexts) ==
    IF conds = <<>>
    THEN [ok |-> TRUE, languages |-> languages, contexts |-> contexts]
    ELSE IF Head(conds) = "" THEN [ok |-> FALSE, message |-> "condition"]
    ELSE IF is_lowercase(CharAt(Head(conds), 1))
    THEN Conditions(Tail(conds), Append(languages, Head(conds)), contexts)
    ELSE Conditions(Tail(conds), languages, Append(contexts, Head(conds)))

\* SpecialCasing::next (special_casing.rs:45-100) on self.lines.  The result
\* is [lines, item]: the lines left and [kind |-> "Some", case], [kind |->
\* "None"] or [kind |-> "panic", message]; case is a SpecialCase.
RECURSIVE SpecialCasing_next(_)
SpecialCasing_next(self_lines) ==
    IF self_lines = <<>>
    THEN [lines |-> self_lines, item |-> [kind |-> "None"]]
    ELSE
    LET line == split(Head(self_lines), "#")[1]
        rest == Tail(self_lines)
        Panic(message) ==
            [lines |-> rest, item |-> [kind |-> "panic", message |-> message]]
        fields == split(line, ";")
        code == from_str_radix_16(trim(fields[1]))
        lower == parse_next_codes(fields, 2)
        title == parse_next_codes(fields, 3)
        upper == parse_next_codes(fields, 4)
        conditions == trim(fields[5])
        sorted == IF conditions = ""
                  THEN [ok |-> TRUE, languages |-> <<>>, contexts |-> <<>>]
                  ELSE Conditions(split(conditions, " "), <<>>, <<>>)
    IN
    IF line = "" THEN SpecialCasing_next(rest)
    ELSE IF ~code.ok THEN Panic("code")
    ELSE IF ~lower.ok THEN Panic(lower.message)
    ELSE IF ~title.ok THEN Panic(title.message)
    ELSE IF ~upper.ok THEN Panic(upper.message)
    ELSE IF Len(fields) < 5 THEN Panic("condition_list")
    ELSE IF ~sorted.ok THEN Panic(sorted.message)
    ELSE [lines |-> rest,
          item |-> [kind |-> "Some",
                    case |-> [code |-> code.value, lower |-> lower.value,
                              upper |-> upper.value,
                              languages |-> sorted.languages,
                              contexts |-> sorted.contexts]]]

\* case_info (special_casing.rs:172): the default casing of a code, from the
\* BMPInfo; [ok |-> FALSE] when an index is out of range or apply panics.
case_info(info, code) ==
    IF ~(code < info.index.len) THEN [ok |-> FALSE]
    ELSE IF ~(IndexAt(info.index, code) < Len(info.table)) THEN [ok |-> FALSE]
    ELSE IF ~(code <= MAX_BMP) THEN [ok |-> FALSE]
    ELSE LET mapped == apply(info.table[IndexAt(info.index, code) + 1], code)
         IN  [ok |-> TRUE, lower |-> mapped.lower, upper |-> mapped.upper,
              flags |-> mapped.flags]

\* special_casing.rs:192-193
has_special(seq, default) == Len(seq) # 1 \/ seq[1] # default

\* The rule with the sequence compared to the default instead of the code.
CasingRuleAgainstDefault(code, seq, default) ==
    code = default \/ Len(seq) # 1 \/ default # seq[1]

\* special_casing.rs:197-198
CasingRuleHolds(code, seq, default) ==
    code = default \/ Len(seq) # 1 \/ code # seq[1]

\* BTreeMap::insert
MapInsert(map, key, value) == (key :> value) @@ map

\* map.entry(language).or_insert_with(|| ContextualMapping::new())
\*    .insert(code, value)  (special_casing.rs:228-231)
LangInsert(map, language, code, value) ==
    IF language \in DOMAIN map
    THEN [map EXCEPT ![language] = MapInsert(@, code, value)]
    ELSE (language :> (code :> value)) @@ map

\* The six buckets of process_special_casing.
Buckets ==
    [unconditional_tolower |-> unconditional_tolower,
     unconditional_toupper |-> unconditional_toupper,
     conditional_tolower |-> conditional_tolower,
     conditional_toupper |-> conditional_toupper,
     lang_conditional_tolower |-> lang_conditional_tolower,
     lang_conditional_toupper |-> lang_conditional_toupper]

\* A dispatch that looks at the language only: a record with a context and
\* no language is taken as unconditional.
DispatchByLanguageOnly(b, case, has_special_lower, has_special_upper) ==
    LET code == case.code
        context == IF case.contexts # <<>> THEN Some(case.contexts[1]) ELSE None
    IN  IF case.languages = <<>>
        THEN [b EXCEPT
                !.unconditional_tolower =
                    IF has_special_lower THEN MapInsert(@, code, case.lower)
                    ELSE @,
                !.unconditional_toupper =
                    IF has_special_upper THEN MapInsert(@, code, case.upper)
                    ELSE @]
        ELSE [b EXCEPT
                !.lang_conditional_tolower =
                    IF has_special_lower
                    THEN LangInsert(@, case.languages[1], code,
                                    <<case.lower, context>>)
                    ELSE @,
                !.lang_conditional_toupper =
                    IF has_special_upper
                    THEN LangInsert(@, case.languages[1], code,
                                    <<case.upper, context>>)
                    ELSE @]

\* special_casing.rs:200-240: the buckets after the record `case`.
Dispatch(b, case, has_special_lower, has_special_upper) ==
    LET code == case.code
        language == IF case.languages # <<>> THEN Some(case.languages[1])
                    ELSE None
        context == IF case.contexts # <<>> THEN Some(case.contexts[1]) ELSE None
    IN  IF ~language.some /\ ~context.some
        THEN [b EXCEPT
                !.unconditional_tolower =
                    IF has_special_lower THEN MapInsert(@, code, case.lower)
                    ELSE @,
                !.unconditional_toupper =
                    IF has_special_upper THEN MapInsert(@, code, case.upper)
                    ELSE @]
        ELSE IF ~language.some
        THEN [b EXCEPT
                !.conditional_tolower =
                    IF has_special_lower
                    THEN MapInsert(@, code, <<case.lower, context.value>>)
                    ELSE @,
                !.conditional_toupper =
                    IF has_special_upper
                    THEN MapInsert(@, code, <<case.upper, context.value>>)
                    ELSE @]
        ELSE [b EXCEPT
                !.lang_conditional_tolower =
                    IF has_special_lower
                    THEN LangInsert(@, language.value, code,
                                    <<case.lower, context>>)
                    ELSE @,
                !.lang_conditional_toupper =
                    IF has_special_upper
                    THEN LangInsert(@, language.value, code,
                                    <<case.upper, context>>)
                    ELSE @]

\* The registry behind the BMPInfo given to process_special_casing: U+0041,
\* U+0069, U+00DF, U+0130, U+0307 and U+03A3 with their casing in
\* UnicodeData.txt.
SpecialRegistry ==
    (65 :> [category |-> "Lu", uppercase |-> 65, lowercase |-> 97])
    @@ (105 :> [category |-> "Ll", uppercase |-> 73, lowercase |-> 105])
    @@ (223 :> [category |-> "Ll", uppercase |-> 223, lowercase |-> 223])
    @@ (304 :> [category |-> "Lu", uppercase |-> 304, lowercase |-> 105])
    @@ (775 :> [category |-> "Mn", uppercase |-> 775, lowercase |-> 775])
    @@ (931 :> [category |-> "Lu", uppercase |-> 931, lowercase |-> 963])

\* The BMPInfo of that registry.
SpecialBmp ==
    LET r == generate_bmp_info(SpecialRegistry,
                               [id_start |-> {}, id_continue |-> {}],
                               Ascending(DOMAIN SpecialRegistry))
    IN  [table |-> r.table, index |-> r.index]

\* Lines a SpecialCasing.txt may hold.
SpecialLinePool ==
    {"# SpecialCasing.txt",
     "00DF; 00DF; 0053 0073; 0053 0053; # LATIN SMALL LETTER SHARP S",
     "03A3; 03C2; 03A3; 03A3; Final_Sigma; ",
     "0307; 0307; ; ; lt After_Soft_Dotted; ",
     "0069; 0069; 0130; 0130; tr; ",
     "0041; 0069 0307; 0041; 0041; ",
     "0041; 0041; 0041; 0041; ",
     "0069; 0069; 0069; 0069; ",
     "0049; 0131; 0049; 0049; tr az; ",
     "0307; 0307; ; ; After_Soft_Dotted More_Above; ",
     "10400; 0428; 0400; 0400; ",
     "10400; 10428; 10400; 10400; "}

SpecialFiles == SeqsUpTo(SpecialLinePool, MaxSpecialLines)

\* special_casing.rs:174-241: the reader yields a record and the loop body
\* runs on it.
SpecialRecord ==
    /\ scpc = "loop"
    /\ \E r \in {SpecialCasing_next(sc_lines)} :
           /\ r.item.kind = "Some"
           /\ sc_lines' = r.lines
           /\ LET case == r.item.case
                  code == case.code
                  defaults == case_info(bmp, code)
                  has_special_lower == has_special(case.lower, defaults.lower)
                  has_special_upper == has_special(case.upper, defaults.upper)
                  Panic(message) ==
                      /\ scpc' = message
                      /\ UNCHANGED <<unconditional_tolower,
                                     unconditional_toupper,
                                     conditional_tolower, conditional_toupper,
                                     lang_conditional_tolower,
                                     lang_conditional_toupper>>
              IN  IF ~(code <= MAX_BMP)
                  THEN Panic("non-BMP special not handled yet")
                  ELSE IF ~(Len(case.languages) <= 1)
                  THEN Panic("only 0/1 languages handled")
                  ELSE IF ~(Len(case.contexts) <= 1)
                  THEN Panic("only 0/1 casing contexts handled")
                  ELSE IF ~defaults.ok
                  THEN Panic("index out of bounds")
                  ELSE IF ~CasingRuleHolds(code, case.lower, defaults.lower)
                  THEN Panic("assert!(code == default_lower || ...)")
                  ELSE IF ~CasingRuleHolds(code, case.upper, defaults.upper)
                  THEN Panic("assert!(code == default_upper || ...)")
                  ELSE LET b == Dispatch(Buckets, case, has_special_lower,
                                         has_special_upper)
                       IN  /\ unconditional_tolower' = b.unconditional_tolower
                           /\ unconditional_toupper' = b.unconditional_toupper
                           /\ conditional_tolower' = b.conditional_tolower
                           /\ conditional_toupper' = b.conditional_toupper
                           /\ lang_conditional_tolower' =
                                  b.lang_conditional_tolower
                           /\ lang_conditional_toupper' =
                                  b.lang_conditional_toupper
                           /\ scpc' = scpc
    /\ UNCHANGED <<bmp, sc_file>>
    /\ UNCHANGED <<splitVars, bmpVars, parseVars, foldVars, nonBmpVars>>
    /\ UNCHANGED derivedVars

\* special_casing.rs:45-100: an expect of the reader fails.
SpecialAbort ==
    /\ scpc = "loop"
    /\ \E r \in {SpecialCasing_next(sc_lines)} :
           /\ r.item.kind = "panic"
           /\ sc_lines' = r.lines
           /\ scpc' = r.item.message
    /\ UNCHANGED <<bmp, sc_file, unconditional_tolower, unconditional_toupper,
                   conditional_tolower, conditional_toupper,
                   lang_conditional_tolower, lang_conditional_toupper>>
    /\ UNCHANGED <<splitVars, bmpVars, parseVars, foldVars, nonBmpVars>>
    /\ UNCHANGED derivedVars

\* special_casing.rs:243-254: the reader is exhausted and SpecialCasingData
\* is returned.
SpecialReturn ==
    /\ scpc = "loop"
    /\ \E r \in {SpecialCasing_next(sc_lines)} :
           /\ r.item.kind = "None"
           /\ sc_lines' = r.lines
    /\ scpc' = "done"
    /\ UNCHANGED <<bmp, sc_file, unconditional_tolower, unconditional_toupper,
                   conditional_tolower, conditional_toupper,
                   lang_conditional_tolower, lang_conditional_toupper>>
    /\ UNCHANGED <<splitVars, bmpVars, parseVars, foldVars, nonBmpVars>>
    /\ UNCHANGED derivedVars

---------------------------------------------------------------------------
(* non_bmp.rs *)

\* A filter that keeps every record.
KeepsAll(code) == code >= 0

\* non_bmp.rs:53, the filter on the registry's records
KeepsNonBmp(code) == code > MAX_BMP

\* CaseMap::insert and CodePointSet::insert
CaseMapInsert(map, code, target) == (code :> target) @@ map

\* Records a registry may hold, one per code: U+0020 SPACE, U+0041, the
\* Deseret pair U+10400 / U+10428, U+103C8 without casing, a non-BMP code of
\* category Zs, and two non-BMP codes whose lowercase, or uppercase, is in
\* the BMP.
NonBmpRecordPool ==
    (32 :> [category |-> "Zs", uppercase |-> 32, lowercase |-> 32])
    @@ (65 :> [category |-> "Lu", uppercase |-> 65, lowercase |-> 97])
    @@ (66560 :> [category |-> "Lu", uppercase |-> 66560, lowercase |-> 66600])
    @@ (66600 :> [category |-> "Ll", uppercase |-> 66560, lowercase |-> 66600])
    @@ (66504 :> [category |-> "Lo", uppercase |-> 66504, lowercase |-> 66504])
    @@ (126976 :> [category |-> "Zs", uppercase |-> 126976,
                   lowercase |-> 126976])
    @@ (66640 :> [category |-> "Lu", uppercase |-> 66640, lowercase |-> 97])
    @@ (66641 :> [category |-> "Ll", uppercase |-> 65, lowercase |-> 66641])

\* Codes the derived sets may hold.
NonBmpIdSample == {65, 66504}

NonBmpRegistries ==
    {[c \in codes |-> NonBmpRecordPool[c]] :
        codes \in {cs \in SUBSET DOMAIN NonBmpRecordPool :
                      Cardinality(cs) <= MaxNonBmpRecords}}

\* non_bmp.rs:51-54: the iterator yields a record, in no particular order,
\* and the filter drops it.
NonBmpFilterOut ==
    /\ npc = "loop"
    /\ \E code \in nb_unvisited :
          /\ ~KeepsNonBmp(code)
          /\ nb_unvisited' = nb_unvisited \ {code}
    /\ UNCHANGED <<nb_code_point_table, nb_derived, lowercase_map,
                   uppercase_map, space_set, id_start_set, id_continue_set,
                   npc>>
    /\ UNCHANGED <<splitVars, bmpVars, parseVars, foldVars, specialVars>>
    /\ UNCHANGED derivedVars

\* non_bmp.rs:51-85: the iterator yields a record that passes the filter, and
\* the loop body runs on it.
NonBmpVisit ==
    /\ npc = "loop"
    /\ \E code \in nb_unvisited :
          /\ KeepsNonBmp(code)
          /\ LET code_point == nb_code_point_table[code]
                 lower == code_point.lowercase
                 upper == code_point.uppercase
                 lowered == IF code # lower
                            THEN CaseMapInsert(lowercase_map, code, lower)
                            ELSE lowercase_map
             IN  IF code # lower /\ ~(lower > MAX_BMP)
                 THEN /\ npc' = "assert!(lower > MAX_BMP)"
                      /\ UNCHANGED <<nb_unvisited, lowercase_map,
                                     uppercase_map, space_set, id_start_set,
                                     id_continue_set>>
                 ELSE IF code # upper /\ ~(upper > MAX_BMP)
                 THEN /\ npc' = "assert!(upper > MAX_BMP)"
                      /\ lowercase_map' = lowered
                      /\ UNCHANGED <<nb_unvisited, uppercase_map, space_set,
                                     id_start_set, id_continue_set>>
                 ELSE /\ lowercase_map' = lowered
                      /\ uppercase_map' =
                             IF code # upper
                             THEN CaseMapInsert(uppercase_map, code, upper)
                             ELSE uppercase_map
                      /\ space_set' =
                             IF code_point.category = "Zs"
                             THEN space_set \cup {code} ELSE space_set
                      /\ id_start_set' =
                             IF code \in nb_derived.id_start
                             THEN id_start_set \cup {code} ELSE id_start_set
                      /\ id_continue_set' =
                             IF code \in nb_derived.id_continue
                             THEN id_continue_set \cup {code}
                             ELSE id_continue_set
                      /\ nb_unvisited' = nb_unvisited \ {code}
                      /\ npc' = npc
    /\ UNCHANGED <<nb_code_point_table, nb_derived>>
    /\ UNCHANGED <<splitVars, bmpVars, parseVars, foldVars, specialVars>>
    /\ UNCHANGED derivedVars

\* non_bmp.rs:87-93: the iterator is exhausted and NonBMPInfo is returned.
NonBmpReturn ==
    /\ npc = "loop"
    /\ nb_unvisited = {}
    /\ npc' = "done"
    /\ UNCHANGED <<nb_code_point_table, nb_derived, nb_unvisited,
                   lowercase_map, uppercase_map, space_set, id_start_set,
                   id_continue_set>>
    /\ UNCHANGED <<splitVars, bmpVars, parseVars, foldVars, specialVars>>
    /\ UNCHANGED derivedVars

---------------------------------------------------------------------------
(* derived_core_properties.rs *)

\* A range that leaves out its last code.
DerivedRangeExclusive(start, end) == RangeExclusive(start, end)

\* start..=end (derived_core_properties.rs:77)
DerivedRange(start, end) == RangeInclusive(start, end)

\* str::contains("..")
contains_dots(s) == Len(split_str(s, "..")) > 1

\* DerivedCoreProperties::next (derived_core_properties.rs:46-91) on
\* self = [within_range, lines, line_no], line_no being the number in the
\* file of the first line of `lines`.  The result is [self, item] with item
\* one of [kind |-> "Some", code_point, property, line], [kind |-> "None"]
\* and [kind |-> "panic", message].
RECURSIVE DerivedCoreProperties_next(_)
DerivedCoreProperties_next(self) ==
    IF self.within_range.some
       /\ ~self.within_range.range.exhausted
       /\ self.within_range.range.start <= self.within_range.range.end
    THEN \* range.next() is Some(code_point)
         LET r == self.within_range.range
             r2 == IF r.start < r.end
                   THEN [r EXCEPT !.start = r.start + 1]
                   ELSE [r EXCEPT !.exhausted = TRUE]
         IN  [self |-> [self EXCEPT !.within_range.range = r2],
              item |-> [kind |-> "Some", code_point |-> r.start,
                        property |-> self.within_range.property,
                        line |-> self.within_range.line]]
    ELSE IF self.within_range.some
    THEN DerivedCoreProperties_next([self EXCEPT !.within_range = None])
    ELSE IF self.lines = <<>>
    THEN [self |-> self, item |-> [kind |-> "None"]]
    ELSE
    LET line == split(Head(self.lines), "#")[1]
        after == [self EXCEPT !.lines = Tail(self.lines),
                              !.line_no = self.line_no + 1]
        Panic(message) ==
            [self |-> after, item |-> [kind |-> "panic", message |-> message]]
        fields == split(line, ";")
        range == trim(fields[1])
        property == trim(fields[2])
        nums == split_str(range, "..")
        start == from_str_radix_16(nums[1])
        end == from_str_radix_16(nums[2])
        code_point == from_str_radix_16(range)
    IN
    IF line = "" THEN DerivedCoreProperties_next(after)
    ELSE IF Len(fields) < 2 THEN Panic("property")
    ELSE IF contains_dots(range)
    THEN IF ~start.ok THEN Panic("hex start")
         ELSE IF ~end.ok THEN Panic("hex end")
         ELSE DerivedCoreProperties_next(
                  [after EXCEPT !.within_range =
                      [some |-> TRUE,
                       range |-> DerivedRange(start.value, end.value),
                       property |-> property,
                       line |-> self.line_no]])
    ELSE IF ~code_point.ok THEN Panic("hex code point")
    ELSE [self |-> after,
          item |-> [kind |-> "Some", code_point |-> code_point.value,
                    property |-> property, line |-> self.line_no]]

\* Lines a DerivedCoreProperties.txt may hold: a comment, an empty line,
\* ranges and single codes of the two identifier properties and of another
\* property, a range whose end is below its start, a line without a
\* property and a line whose code is not hexadecimal.
DerivedLinePool ==
    {"# DerivedCoreProperties-13.0.0.txt",
     "",
     "0041..0043 ; ID_Start # L& [3] A..C",
     "0042..0044 ; ID_Continue",
     "005F ; ID_Continue # Pc LOW LINE",
     "0041 ; ID_Start",
     "00AA..00AB ; Alphabetic",
     "0044..0041 ; ID_Start",
     "0041",
     "00ZZ ; ID_Start"}

DerivedFiles == SeqsUpTo(DerivedLinePool, MaxDerivedLines)

\* The state of the reader as next() sees it.
DerivedSelf ==
    [within_range |-> dc_within_range, lines |-> dc_lines,
     line_no |-> Len(dc_file) - Len(dc_lines) + 1]

\* derived_core_properties.rs:127-141: the reader yields a pair and the loop
\* body puts the code in the set its property names, or in none.
DerivedInsert ==
    /\ dpc = "loop"
    /\ \E r \in {DerivedCoreProperties_next(DerivedSelf)} :
           /\ r.item.kind = "Some"
           /\ dc_lines' = r.self.lines
           /\ dc_within_range' = r.self.within_range
           /\ dc_yielded' = Append(dc_yielded,
                                   [code_point |-> r.item.code_point,
                                    property |-> r.item.property,
                                    line |-> r.item.line])
           /\ id_start' = IF r.item.property = "ID_Start"
                          THEN id_start \cup {r.item.code_point}
                          ELSE id_start
           /\ id_continue' = IF r.item.property = "ID_Continue"
                             THEN id_continue \cup {r.item.code_point}
                             ELSE id_continue
    /\ UNCHANGED <<dc_file, dpc>>
    /\ UNCHANGED <<splitVars, bmpVars, parseVars, foldVars, specialVars,
                   nonBmpVars>>

\* derived_core_properties.rs:68-84: an expect of the reader fails.
DerivedAbort ==
    /\ dpc = "loop"
    /\ \E r \in {DerivedCoreProperties_next(DerivedSelf)} :
           /\ r.item.kind = "panic"
           /\ dc_lines' = r.self.lines
           /\ dc_within_range' = r.self.within_range
           /\ dpc' = r.item.message
    /\ UNCHANGED <<dc_file, dc_yielded, id_start, id_continue>>
    /\ UNCHANGED <<splitVars, bmpVars, parseVars, foldVars, specialVars,
                   nonBmpVars>>

\* derived_core_properties.rs:143-146: the reader is exhausted and
\* DerivedCorePropertyData is returned.
DerivedReturn ==
    /\ dpc = "loop"
    /\ \E r \in {DerivedCoreProperties_next(DerivedSelf)} :
           /\ r.item.kind = "None"
           /\ dc_lines' = r.self.lines
           /\ dc_within_range' = r.self.within_range
    /\ dpc' = "done"
    /\ UNCHANGED <<dc_file, dc_yielded, id_start, id_continue>>
    /\ UNCHANGED <<splitVars, bmpVars, parseVars, foldVars, specialVars,
                   nonBmpVars>>

---------------------------------------------------------------------------
(* spaces.rs *)

\* spaces.rs:22-24, the test of one record
IsWhiteSpace(code, category) ==
    category = "Zs" \/ code \in WHITE_SPACE \/ code \in LINE_TERMINATOR

\* compute_white_space (spaces.rs:18-35) on a registry: the assertion of
\* spaces.rs:26-30 fails when some record that passes the test is outside
\* the BMP, in whatever order the records are visited; otherwise the set of
\* the codes that pass the test is returned.
compute_white_space(registry) ==
    LET spaces == {code \in DOMAIN registry :
                      IsWhiteSpace(code, registry[code].category)}
    IN  IF \E code \in spaces : ~(code <= MAX_BMP)
        THEN [panic |-> TRUE, space_set |-> {}]
        ELSE [panic |-> FALSE, space_set |-> spaces]

---------------------------------------------------------------------------
(* Specifications *)

\* The variables of a program that is not running.
SplitIdle ==
    /\ t = <<>>
    /\ pc = "idle"
    /\ max_shift = 0
    /\ candidate_shift = 0
    /\ best = EmptySplit
    /\ best_bytes = USIZE_MAX
    /\ tried = EmptySplit

BmpIdle ==
    /\ code_point_table = <<>>
    /\ derived_properties = [id_start |-> {}, id_continue |-> {}]
    /\ unvisited = {}
    /\ table = <<>>
    /\ index = ZeroedIndex
    /\ cache = <<>>
    /\ bpc = "idle"

ParseIdle ==
    /\ file = <<>>
    /\ lines = <<>>
    /\ within_range = None
    /\ code_point_map = <<>>
    /\ yielded = <<>>
    /\ heads = {}
    /\ ppc = "idle"

FoldIdle ==
    /\ cf_file = <<>>
    /\ cf_lines = <<>>
    /\ cf_yielded = <<>>
    /\ folding_map = <<>>
    /\ reverse_folding_map = <<>>
    /\ all_codes_with_equivalents = <<>>
    /\ bmp_folding_table = <<>>
    /\ bmp_folding_cache = <<>>
    /\ bmp_folding_index = ZeroedIndex
    /\ cf_todo = <<>>
    /\ fpc = "idle"

SpecialIdle ==
    /\ bmp = [table |-> <<>>, index |-> ZeroedIndex]
    /\ sc_file = <<>>
    /\ sc_lines = <<>>
    /\ unconditional_tolower = <<>>
    /\ unconditional_toupper = <<>>
    /\ conditional_tolower = <<>>
    /\ conditional_toupper = <<>>
    /\ lang_conditional_tolower = <<>>
    /\ lang_conditional_toupper = <<>>
    /\ scpc = "idle"

NonBmpIdle ==
    /\ nb_code_point_table = <<>>
    /\ nb_derived = [id_start |-> {}, id_continue |-> {}]
    /\ nb_unvisited = {}
    /\ lowercase_map = <<>>
    /\ uppercase_map = <<>>
    /\ space_set = {}
    /\ id_start_set = {}
    /\ id_continue_set = {}
    /\ npc = "idle"

DerivedIdle ==
    /\ dc_file = <<>>
    /\ dc_lines = <<>>
    /\ dc_within_range = None
    /\ dc_yielded = <<>>
    /\ id_start = {}
    /\ id_continue = {}
    /\ dpc = "idle"

\* split_table(t) is called on any of the input vectors.
SplitInit ==
    /\ t \in Inputs
    /\ pc = "start"
    /\ max_shift = 0
    /\ candidate_shift = 0
    /\ best = EmptySplit
    /\ best_bytes = USIZE_MAX
    /\ tried = EmptySplit
    /\ code_point_table = <<>>
    /\ derived_properties = [id_start |-> {}, id_continue |-> {}]
    /\ unvisited = {}
    /\ table = <<>>
    /\ index = ZeroedIndex
    /\ cache = <<>>
    /\ bpc = "idle"
    /\ file = <<>>
    /\ lines = <<>>
    /\ within_range = None
    /\ code_point_map = <<>>
    /\ yielded = <<>>
    /\ heads = {}
    /\ ppc = "idle"
    /\ FoldIdle
    /\ SpecialIdle
    /\ NonBmpIdle
    /\ DerivedIdle

SplitNext == Start \/ TryShift

SpecSplit == SplitInit /\ [][SplitNext]_vars

\* generate_bmp_info is called on any registry and any derived sets, and has
\* run up to its loop (bmp.rs:122-135).
BmpInit ==
    /\ t = <<>>
    /\ pc = "idle"
    /\ max_shift = 0
    /\ candidate_shift = 0
    /\ best = EmptySplit
    /\ best_bytes = USIZE_MAX
    /\ tried = EmptySplit
    /\ code_point_table \in Registries
    /\ derived_properties \in
          [id_start : SUBSET IdSample, id_continue : SUBSET IdSample]
    /\ unvisited = DOMAIN code_point_table
    /\ table = <<all_zeroes>>
    /\ index = ZeroedIndex
    /\ cache = SeededCache
    /\ bpc = "loop"
    /\ file = <<>>
    /\ lines = <<>>
    /\ within_range = None
    /\ code_point_map = <<>>
    /\ yielded = <<>>
    /\ heads = {}
    /\ ppc = "idle"
    /\ FoldIdle
    /\ SpecialIdle
    /\ NonBmpIdle
    /\ DerivedIdle

BmpNext == FilterOut \/ Visit \/ Return

SpecBmp == BmpInit /\ [][BmpNext]_vars

\* generate_code_point_table is called on any file: UnicodeDataParse::parse()
\* (code_point_table.rs:58-63) and an empty map.
ParseInit ==
    /\ t = <<>>
    /\ pc = "idle"
    /\ max_shift = 0
    /\ candidate_shift = 0
    /\ best = EmptySplit
    /\ best_bytes = USIZE_MAX
    /\ tried = EmptySplit
    /\ code_point_table = <<>>
    /\ derived_properties = [id_start |-> {}, id_continue |-> {}]
    /\ unvisited = {}
    /\ table = <<>>
    /\ index = ZeroedIndex
    /\ cache = <<>>
    /\ bpc = "idle"
    /\ file \in Files
    /\ lines = file
    /\ within_range = None
    /\ code_point_map = <<>>
    /\ yielded = <<>>
    /\ heads = {}
    /\ ppc = "loop"
    /\ FoldIdle
    /\ SpecialIdle
    /\ NonBmpIdle
    /\ DerivedIdle

ParseNext == Insert \/ Finish \/ Abort

SpecParse == ParseInit /\ [][ParseNext]_vars

\* process_case_folding is called on a CaseFolding.txt of at most
\* MaxFoldLines lines.
FoldInit ==
    /\ cf_file \in FoldFiles
    /\ cf_lines = cf_file
    /\ cf_yielded = <<>>
    /\ folding_map = <<>>
    /\ reverse_folding_map = <<>>
    /\ all_codes_with_equivalents = <<>>
    /\ bmp_folding_table = <<>>
    /\ bmp_folding_cache = <<>>
    /\ bmp_folding_index = ZeroedIndex
    /\ cf_todo = <<>>
    /\ fpc = "read"
    /\ SplitIdle
    /\ BmpIdle
    /\ ParseIdle
    /\ SpecialIdle
    /\ NonBmpIdle
    /\ DerivedIdle

FoldNext ==
    FoldInsert \/ FoldAbort \/ FoldEquivalents \/ FoldIntern \/ FoldReturn

SpecFold == FoldInit /\ [][FoldNext]_vars

\* process_special_casing is called with the BMPInfo of SpecialRegistry, on a
\* SpecialCasing.txt of at most MaxSpecialLines lines.
SpecialInit ==
    /\ bmp = SpecialBmp
    /\ sc_file \in SpecialFiles
    /\ sc_lines = sc_file
    /\ unconditional_tolower = <<>>
    /\ unconditional_toupper = <<>>
    /\ conditional_tolower = <<>>
    /\ conditional_toupper = <<>>
    /\ lang_conditional_tolower = <<>>
    /\ lang_conditional_toupper = <<>>
    /\ scpc = "loop"
    /\ SplitIdle
    /\ BmpIdle
    /\ ParseIdle
    /\ FoldIdle
    /\ NonBmpIdle
    /\ DerivedIdle

SpecialNext == SpecialRecord \/ SpecialAbort \/ SpecialReturn

SpecSpecial == SpecialInit /\ [][SpecialNext]_vars

\* generate_non_bmp_info is called on a registry of at most MaxNonBmpRecords
\* records, and process_derived_core_properties has returned some derived
\* sets.
NonBmpInit ==
    /\ nb_code_point_table \in NonBmpRegistries
    /\ nb_derived \in [id_start : SUBSET NonBmpIdSample,
                        id_continue : SUBSET NonBmpIdSample]
    /\ nb_unvisited = DOMAIN nb_code_point_table
    /\ lowercase_map = <<>>
    /\ uppercase_map = <<>>
    /\ space_set = {}
    /\ id_start_set = {}
    /\ id_continue_set = {}
    /\ npc = "loop"
    /\ SplitIdle
    /\ BmpIdle
    /\ ParseIdle
    /\ FoldIdle
    /\ SpecialIdle
    /\ DerivedIdle

NonBmpNext == NonBmpFilterOut \/ NonBmpVisit \/ NonBmpReturn

SpecNonBmp == NonBmpInit /\ [][NonBmpNext]_vars

\* process_derived_core_properties is called on any DerivedCoreProperties.txt
\* of at most MaxDerivedLines lines.
DerivedInit ==
    /\ dc_file \in DerivedFiles
    /\ dc_lines = dc_file
    /\ dc_within_range = None
    /\ dc_yielded = <<>>
    /\ id_start = {}
    /\ id_continue = {}
    /\ dpc = "loop"
    /\ SplitIdle
    /\ BmpIdle
    /\ ParseIdle
    /\ FoldIdle
    /\ SpecialIdle
    /\ NonBmpIdle

DerivedNext == DerivedInsert \/ DerivedAbort \/ DerivedReturn

SpecDerived == DerivedInit /\ [][DerivedNext]_vars

---------------------------------------------------------------------------
(* Claims about split_table *)

IsPowerOfTwo(n) == \E k \in 0..n : n = Pow2(k)

\* The largest element of a non-empty vector.
MaxElem(data) ==
    CHOOSE m \in {data[k] : k \in DOMAIN data} :
        \A k \in DOMAIN data : data[k] <= m

\* The narrowest type that holds m, and the width of a type in bytes.
Narrowest(m) == IF m <= 255 THEN "U8" ELSE IF m <= 65535 THEN "U16" ELSE "U32"
Width(ty) == IF ty = "U8" THEN 1 ELSE IF ty = "U16" THEN 2 ELSE 4

ByteCost(s) ==
    Len(s.index1) * Width(s.index1_elem_type)
    + Len(s.index2) * Width(s.index2_elem_type)

\* t[i] == index2[(index1[i >> shift] << shift) + (i & ((1 << shift) - 1))],
\* with both reads in bounds, for every index i of data (0-based).
RecoveryLaw(data, s) ==
    \A i \in 0..(Len(data) - 1) :
        LET e == ShiftRight(i, s.shift) IN
        /\ e < Len(s.index1)
        /\ LET pos == ShiftLeft(s.index1[e + 1], s.shift) + MaskLow(i, s.shift) IN
           /\ pos < Len(s.index2)
           /\ data[i + 1] = s.index2[pos + 1]

\* C1: for an input whose length is a power of two and at least 2,
\* split_table never aborts, and the split it returns satisfies the recovery
\* law with every read of index1 and index2 in bounds.
C1_RecoveryLaw ==
    (IsPowerOfTwo(Len(t)) /\ Len(t) >= 2) =>
        /\ pc # "panic"
        /\ pc = "done" => RecoveryLaw(t, best)

\* A returned split with a real second level: shift 2 and index2 shorter
\* than the input.
C1_Witness ==
    /\ pc = "done"
    /\ Len(t) = 8
    /\ best.shift = 2
    /\ Len(best.index2) < Len(t)

\* C2: the returned split is the one built for its shift, that shift is a
\* candidate, no candidate shift costs fewer bytes, every candidate of equal
\* cost is a larger shift, and the cost is at most that of shift 0.
C2_MinimumCost ==
    pc = "done" =>
        /\ best.shift \in 0..max_shift
        /\ best = BuildSplit(t, best.shift).split
        /\ best_bytes = ByteCost(best)
        /\ \A s \in 0..max_shift :
              LET b == BuildSplit(t, s) IN
              /\ ~b.panic
              /\ ByteCost(best) <= ByteCost(b.split)
              /\ ByteCost(b.split) = ByteCost(best) => best.shift <= s
        /\ ByteCost(best) <= ByteCost(BuildSplit(t, 0).split)

\* A return where two candidate shifts tie for the minimum and a return
\* where a shift other than 0 wins are both reachable; the tie is the case
\* that needs the rule.
C2_Witness ==
    /\ pc = "done"
    /\ \E s \in 0..max_shift :
          /\ s # best.shift
          /\ ByteCost(BuildSplit(t, s).split) = ByteCost(best)

\* C3: for a single-element input [v] the call returns index1 = [0],
\* index2 = [v], shift = 0, having tried exactly the candidate shift 0.
C3_SingleElement ==
    (Len(t) = 1 /\ pc \notin {"start", "loop"}) =>
        /\ pc = "done"
        /\ max_shift = 0
        /\ best.index1 = <<0>>
        /\ best.index2 = t
        /\ best.shift = 0

\* The element types of s are the narrowest for its two vectors.
TypedRight(s) ==
    /\ s.index1 # <<>> /\ s.index2 # <<>>
    /\ s.index1_elem_type = Narrowest(MaxElem(s.index1))
    /\ s.index2_elem_type = Narrowest(MaxElem(s.index2))

\* C4: every element type computed is the narrowest for its vector (U8 up
\* to 0xFF, U16 up to 0xFFFF, U32 above), a byte count uses the widths 1, 2
\* and 4, and the types in the returned split are those of the returned
\* index1 and index2.
C4_ElementTypes ==
    /\ t # <<>> => /\ get_element_type(t) = Narrowest(MaxElem(t))
                   /\ get_size(get_element_type(t)) = Width(Narrowest(MaxElem(t)))
    /\ tried # EmptySplit => TypedRight(tried)
    /\ best # EmptySplit => TypedRight(best) /\ best_bytes = ByteCost(best)
    /\ pc = "done" => best # EmptySplit

\* A returned split whose index2 needs U32 while index1 needs U8, and whose
\* input holds the largest U16 value too.
C4_Witness ==
    /\ pc = "done"
    /\ best.index1_elem_type = "U8"
    /\ best.index2_elem_type = "U32"
    /\ \E k \in DOMAIN t : t[k] = 65535

---------------------------------------------------------------------------
(* Claims about generate_bmp_info *)

\* The BMP records the loop body has run on.
Visited ==
    {c \in DOMAIN code_point_table : c <= MAX_BMP /\ c \notin unvisited}

\* The BMP codes the claims are checked on: every BMP code a registry may
\* hold, the codes U+0001 and U+200D that none holds, and every code whose
\* index entry was written.
WatchedCodes ==
    {c \in DOMAIN RecordPool : c <= 65535} \cup {1, 8205} \cup DOMAIN index.set

\* table[index[c]]
InfoOf(c) == table[IndexAt(index, c) + 1]

HasIdStartBit(flags) == (flags \div 2) % 2 = 1
HasIdContinueOnlyBit(flags) == (flags \div 4) % 2 = 1

\* C5: after any prefix of the records, in any order: table[0] is the
\* all-zero record, index has 65536 entries, every entry is a position of
\* table, the entry of a code without a record is 0, the entries of table
\* are pairwise distinct, and the assertion on a cache miss has not failed.
C5_WellFormed ==
    /\ Len(table) >= 1
    /\ table[1] = [upper_delta |-> 0, lower_delta |-> 0, flags |-> 0]
    /\ index.len = 65536
    /\ DOMAIN index.set \subseteq 0..(index.len - 1)
    /\ \A c \in WatchedCodes : IndexAt(index, c) \in 0..(Len(table) - 1)
    /\ \A c \in WatchedCodes :
          c \notin DOMAIN code_point_table => IndexAt(index, c) = 0
    /\ \A j, k \in DOMAIN table : j # k => table[j] # table[k]
    /\ bpc # "assert!(!table.contains(&item))"

\* A finished run in which A and B share one entry of table, a record with
\* identity casing and no flag (U+0000) reuses entry 0, and a watched code
\* has no record.
C5_Witness ==
    /\ bpc = "done"
    /\ {0, 65, 66} \subseteq Visited
    /\ IndexAt(index, 65) = IndexAt(index, 66)
    /\ IndexAt(index, 65) # 0
    /\ IndexAt(index, 0) = 0
    /\ 97 \notin DOMAIN code_point_table

\* C6: for every record with code, uppercase and lowercase in the BMP that
\* the loop has run on, table[index[c]].apply(c) is the record's
\* (uppercase, lowercase).
C6_ApplyRecoversCase ==
    \A c \in Visited :
        LET info == code_point_table[c] IN
        (info.uppercase <= 65535 /\ info.lowercase <= 65535) =>
            LET mapped == apply(InfoOf(c), c) IN
            /\ mapped.upper = info.uppercase
            /\ mapped.lower = info.lowercase

\* A finished run with a record whose uppercase is below its code (a, delta
\* 0xFFE0) and one whose lowercase is below its code (U+FFFF to U+0000).
C6_Witness ==
    /\ bpc = "done"
    /\ {97, 65535} \subseteq Visited
    /\ InfoOf(97).upper_delta = 65504
    /\ InfoOf(65535).lower_delta = 1

\* C7: no CharacterInfo in table has both the ID_START bit and the
\* ID_CONTINUE_ONLY bit.
C7_IdBitsExclusive ==
    \A k \in DOMAIN table :
        ~(HasIdStartBit(table[k].flags) /\ HasIdContinueOnlyBit(table[k].flags))

\* A finished run where A is in both derived sets and ZWNJ is in id_start.
C7_Witness ==
    /\ bpc = "done"
    /\ {65, 8204} \subseteq Visited
    /\ 65 \in derived_properties.id_start \cap derived_properties.id_continue
    /\ 8204 \in derived_properties.id_start
    /\ HasIdStartBit(InfoOf(65).flags)

\* C8: for every BMP code in neither derived set and other than ZWNJ and
\* ZWJ, with or without a record, table[index[c]] has neither the ID_START
\* bit nor the ID_CONTINUE_ONLY bit.
C8_NoIdBits ==
    \A c \in WatchedCodes :
        (c \notin derived_properties.id_start
         /\ c \notin derived_properties.id_continue
         /\ c \notin {8204, 8205}) =>
            /\ ~HasIdStartBit(InfoOf(c).flags)
            /\ ~HasIdContinueOnlyBit(InfoOf(c).flags)

\* A finished run where such a code has a record with a flag (IDEOGRAPHIC
\* SPACE), another has a case mapping (A), and a third has no record.
C8_Witness ==
    /\ bpc = "done"
    /\ {65, 12288} \subseteq Visited
    /\ derived_properties.id_start = {8204}
    /\ derived_properties.id_continue = {}
    /\ InfoOf(12288).flags = 1
    /\ IndexAt(index, 65) # 0
    /\ 32 \notin DOMAIN code_point_table

---------------------------------------------------------------------------
(* Claims about the registry reader *)

ParsePanicked == ppc \notin {"idle", "loop", "done"}

FieldsOf(k) == split(file[k], ";")
NameOf(k) == FieldsOf(k)[2]
CodeOf(k) == from_str_radix_16(FieldsOf(k)[1]).value

\* Line k has 15 fields and a hexadecimal code.
HasCode(k) ==
    /\ k \in DOMAIN file
    /\ Len(FieldsOf(k)) = 15
    /\ from_str_radix_16(FieldsOf(k)[1]).ok

\* Line k is a record line: also its case fields are empty or hexadecimal.
IsRecordLine(k) ==
    /\ HasCode(k)
    /\ to_case(FieldsOf(k)[13], 0).ok
    /\ to_case(FieldsOf(k)[14], 0).ok

\* The name of line k without its first character and its last eight.
Stem(k) == SubSeq(NameOf(k), 2, Len(NameOf(k)) - 8)

\* The items yielded for the line k, in order.
ItemsFrom(k) == SelectSeq(yielded, LAMBDA y : y.line = k)

\* The info every record of the range that line k starts carries: the
\* fields of line k, an empty case field standing for the code of line k,
\* and the stripped name.
ExpectedInfo(k) ==
    LET f == FieldsOf(k)
        a == from_str_radix_16(f[1]).value
    IN  [name |-> SubSeq(f[2], 2, Len(f[2]) - 8),
         category |-> f[3],
         alias |-> f[11],
         uppercase |-> to_case(f[13], a).value,
         lowercase |-> to_case(f[14], a).value]

\* What the reader owes for the pair of lines k, k + 1.
RangeLaw(k) ==
    \* reading the pair did not abort
    /\ ~(ParsePanicked /\ \A h \in heads : h <= k)
    \* the second line is never read as a record of its own
    /\ k + 1 \notin heads
    /\ \A j \in DOMAIN yielded : yielded[j].line # k + 1
    /\ LET items == ItemsFrom(k)
           a == CodeOf(k)
           b == CodeOf(k + 1)
           info == ExpectedInfo(k)
       IN  \* the items are the first codes of a..b, ascending, one each
           /\ Len(items) >= 1
           /\ Len(items) <= b - a + 1
           /\ \A i \in DOMAIN items :
                 items[i] = [code |-> a + i - 1, info |-> info, line |-> k]
           \* nothing else is yielded among them: they form one run
           /\ Cardinality({j \in DOMAIN yielded :
                              /\ yielded[j].line = k
                              /\ (j = 1 \/ yielded[j - 1].line # k)}) = 1
           \* once the reader has moved on, or ended, the range is complete
           /\ (ppc = "done" \/ \E h \in heads : h > k)
                 => Len(items) = b - a + 1

\* The pair of lines k, k + 1 with the name of line k ending in `suffix`.
IsRangePair(k, suffix) ==
    /\ IsRecordLine(k)
    /\ starts_with(NameOf(k), "<")
    /\ ends_with(NameOf(k), suffix)
    /\ HasCode(k + 1)
    /\ CodeOf(k + 1) >= CodeOf(k)

IsMatchingLast(k) ==
    /\ k + 1 \in DOMAIN file
    /\ Len(FieldsOf(k + 1)) = 15
    /\ NameOf(k + 1) = ("<" \o Stem(k)) \o ", Last>"

\* C10: when the reader has read a "<..., First>" line that is not followed
\* by a matching "<..., Last>" line, generation has aborted.
C10_FirstNeedsLast ==
    \A k \in heads :
        (/\ IsRecordLine(k)
         /\ starts_with(NameOf(k), "<")
         /\ ends_with(NameOf(k), ", First>")
         /\ ~IsMatchingLast(k)) => ParsePanicked

---------------------------------------------------------------------------
(* C19 *)

\* C19: for the same registry and derived sets generate_bmp_info returns the
\* same table (the same records at the same positions) and the same index
\* vector whatever the order in which the registry's iteration delivers the
\* records: every returned result is the one of the delivery in ascending
\* code order.
C19_SameOutput ==
    bpc = "done" =>
        LET ref == generate_bmp_info(code_point_table, derived_properties,
                                     Ascending(DOMAIN code_point_table))
        IN  /\ table = ref.table
            /\ index = ref.index

---------------------------------------------------------------------------
(* Claims about the case-folding reader and process_case_folding *)

\* The fields of line k of CaseFolding.txt, up to its comment; <<"">> for a
\* line that is empty or a comment.
CfRow(k) == split_str(split(cf_file[k], "#")[1], "; ")
RowHasStatus(row, statuses) ==
    row # <<"">> /\ Len(row) = 4 /\ row[2] \in statuses
RowHasOtherStatus(row) ==
    row # <<"">> /\ Len(row) = 4 /\ row[2] \notin {"C", "S", "F", "T"}

\* The number of lines the reader has read.
CfConsumed == Len(cf_file) - Len(cf_lines)

\* The reader has aborted.
CfReaderAborted ==
    fpc \in {"assert!(row.len() == 4)", "hex code", "hex mapping",
             "should see (C)ommon, (S)imple, (F)ull, and (T)urkish foldings"}

\* The pairs of the lines among the first n that have status C or S, in file
\* order; rows[k] are the fields of line k.
RECURSIVE CfExpected(_, _)
CfExpected(rows, n) ==
    IF n = 0 THEN <<>>
    ELSE IF RowHasStatus(rows[n], {"C", "S"})
    THEN Append(CfExpected(rows, n - 1),
                [code |-> from_str_radix_16(rows[n][1]).value,
                 mapping |-> from_str_radix_16(rows[n][3]).value,
                 line |-> n])
    ELSE CfExpected(rows, n - 1)

\* C11: the pairs the case-folding reader has yielded are those of the lines
\* read so far whose status is C or S, in file order; a line of status F or T
\* yields nothing and does not stop the reading, which goes on to the end of
\* the file unless a line aborts it; a line with any other status aborts
\* generation.
C11_StatusFilter ==
    \E rows \in {[k \in 1..CfConsumed |-> CfRow(k)]} :
        /\ cf_yielded = CfExpected(rows, CfConsumed)
        /\ \A k \in 1..CfConsumed :
              /\ RowHasStatus(rows[k], {"F", "T"}) =>
                     ~(CfReaderAborted /\ k = CfConsumed)
              /\ RowHasOtherStatus(rows[k]) =>
                     CfReaderAborted /\ k = CfConsumed
        /\ fpc \in {"intern", "done"} => CfConsumed = Len(cf_file)

\* A pair, a line of status F and a second pair have been read, and
\* generation has come to its end.
C11_Witness ==
    /\ fpc = "done"
    /\ Len(cf_file) = 3
    /\ RowHasStatus(CfRow(2), {"F"})
    /\ Len(cf_yielded) = 2
    /\ cf_yielded[1].line = 1 /\ cf_yielded[2].line = 3

\* The equivalents recorded for a code, as a set.
EquivSet(code) ==
    UNION {{all_codes_with_equivalents[k][2][j] :
                j \in DOMAIN all_codes_with_equivalents[k][2]} :
           k \in {k \in DOMAIN all_codes_with_equivalents :
                      all_codes_with_equivalents[k][1] = code}}

\* The codes that take part in the list.
FoldCodes ==
    {all_codes_with_equivalents[k][1] : k \in DOMAIN all_codes_with_equivalents}
    \cup UNION {EquivSet(all_codes_with_equivalents[k][1]) :
                   k \in DOMAIN all_codes_with_equivalents}

IsAscending(seq) == \A i, j \in DOMAIN seq : i < j => seq[i] <= seq[j]

\* C12: every equivalents list of the all_codes_with_equivalents that
\* process_case_folding returns is sorted in ascending order, for a code that
\* is a source of a folding and for a code that is only a folding target.
C12_EquivalentsSorted ==
    fpc = "done" =>
        \A k \in DOMAIN all_codes_with_equivalents :
            IsAscending(all_codes_with_equivalents[k][2])

\* C13: in the list process_case_folding returns, for every two codes
\* a # b, b is among a's equivalents iff a is among b's, and if b is among
\* a's and c # a among b's then c is among a's, also when a folding target is
\* itself the source of another folding.
C13_SymmetricTransitive ==
    fpc = "done" =>
        \A a, b \in FoldCodes :
            a # b =>
                /\ b \in EquivSet(a) <=> a \in EquivSet(b)
                /\ b \in EquivSet(a) =>
                      \A c \in EquivSet(b) : c # a => c \in EquivSet(a)

\* C14: when process_case_folding returns, bmp_folding_table[0] is Delta(0),
\* bmp_folding_index has 65536 entries that are all positions of
\* bmp_folding_table, and for every BMP code c that folding_map sends to m,
\* (c + bmp_folding_table[bmp_folding_index[c]]) mod 2^16 = m, while every
\* other BMP code has bmp_folding_index[c] = 0.
C14_FoldingIndex ==
    fpc = "done" =>
        /\ bmp_folding_table # <<>> /\ bmp_folding_table[1] = 0
        /\ bmp_folding_index.len = MAX_BMP + 1
        /\ \A c \in DOMAIN bmp_folding_index.set :
              /\ c \in 0..MAX_BMP
              /\ bmp_folding_index.set[c] \in 0..(Len(bmp_folding_table) - 1)
        /\ \A c \in DOMAIN folding_map \cup DOMAIN bmp_folding_index.set :
              c <= MAX_BMP =>
                IF c \in DOMAIN folding_map
                THEN (c + bmp_folding_table[IndexAt(bmp_folding_index, c) + 1])
                         % 65536 = folding_map[c]
                ELSE IndexAt(bmp_folding_index, c) = 0

\* A returned result for U+0041 -> U+0061 and U+1E9E -> U+00DF, whose delta
\* wraps around.
C14_Witness ==
    /\ fpc = "done"
    /\ 65 \in DOMAIN folding_map /\ folding_map[65] = 97
    /\ 7838 \in DOMAIN folding_map /\ folding_map[7838] = 223
    /\ Len(bmp_folding_table) = 3

\* The codes the reader delivered with the mapping `target`, in the order of
\* their delivery.
RECURSIVE SourcesOf(_, _)
SourcesOf(target, n) ==
    IF n = 0 THEN <<>>
    ELSE IF cf_yielded[n].mapping = target
    THEN Append(SourcesOf(target, n - 1), cf_yielded[n].code)
    ELSE SourcesOf(target, n - 1)

\* C20: in the list process_case_folding returns, the equivalents of a code
\* that is a source of a folding are its fold target followed by every other
\* source delivered with that target, in the order of delivery, and never
\* hold the code itself; the equivalents of a code that is only a target are
\* the sources delivered with it, in the order of delivery.
C20_EquivalentsShape ==
    fpc = "done" =>
        \A k \in DOMAIN all_codes_with_equivalents :
            LET code == all_codes_with_equivalents[k][1]
                equivs == all_codes_with_equivalents[k][2]
            IN  IF code \in DOMAIN folding_map
                THEN /\ equivs = <<folding_map[code]>>
                                 \o Without(SourcesOf(folding_map[code],
                                                      Len(cf_yielded)), code)
                     /\ \A j \in DOMAIN equivs : equivs[j] # code
                ELSE equivs = SourcesOf(code, Len(cf_yielded))

---------------------------------------------------------------------------
(* Claims about process_special_casing *)

\* The record the reader yields next, if any.
ScNext == SpecialCasing_next(sc_lines).item

\* map with key bound to value, written out.
Bound(map, key, value) ==
    [k \in DOMAIN map \cup {key} |-> IF k = key THEN value ELSE map[k]]

\* The family of buckets a record belongs to by its language and context.
FamilyOf(case) ==
    IF case.languages # <<>> THEN "language"
    ELSE IF case.contexts # <<>> THEN "context"
    ELSE "unconditional"

\* The effect of one record on a lower or upper bucket of each family.
UnconditionalEffect(old, new, code, seq, special) ==
    new = IF special THEN Bound(old, code, seq) ELSE old
ContextEffect(old, new, code, seq, special, contexts) ==
    new = IF special THEN Bound(old, code, <<seq, contexts[1]>>) ELSE old
LanguageEffect(old, new, code, seq, special, languages, contexts) ==
    LET language == languages[1]
        context == IF contexts = <<>> THEN [some |-> FALSE]
                   ELSE [some |-> TRUE, value |-> contexts[1]]
        inner == IF language \in DOMAIN old THEN old[language] ELSE <<>>
    IN  new = IF special
              THEN Bound(old, language, Bound(inner, code, <<seq, context>>))
              ELSE old

\* C15: a step that processes a special-casing record changes buckets of one
\* family only, chosen by the record's language and context: neither gives
\* the unconditional buckets, a context alone the conditional ones, a
\* language (with or without context) the language-conditional ones under
\* that language.  In that family the lower entry is inserted iff the lower
\* sequence is not exactly [default_lower], the upper entry iff the upper
\* sequence is not exactly [default_upper]; the buckets of the other
\* families are left as they were.
C15_OneFamily ==
    [][(scpc = "loop" /\ scpc' = "loop") =>
        \E item \in {ScNext} :
        item.kind = "Some" =>
        \E defaults \in {case_info(bmp, item.case.code)} :
        LET case == item.case
            code == case.code
            special_lower == case.lower # <<defaults.lower>>
            special_upper == case.upper # <<defaults.upper>>
            family == FamilyOf(case)
        IN  /\ IF family = "unconditional"
               THEN /\ UnconditionalEffect(unconditional_tolower,
                                           unconditional_tolower', code,
                                           case.lower, special_lower)
                    /\ UnconditionalEffect(unconditional_toupper,
                                           unconditional_toupper', code,
                                           case.upper, special_upper)
               ELSE UNCHANGED <<unconditional_tolower, unconditional_toupper>>
            /\ IF family = "context"
               THEN /\ ContextEffect(conditional_tolower,
                                     conditional_tolower', code, case.lower,
                                     special_lower, case.contexts)
                    /\ ContextEffect(conditional_toupper,
                                     conditional_toupper', code, case.upper,
                                     special_upper, case.contexts)
               ELSE UNCHANGED <<conditional_tolower, conditional_toupper>>
            /\ IF family = "language"
               THEN /\ LanguageEffect(lang_conditional_tolower,
                                      lang_conditional_tolower', code,
                                      case.lower, special_lower,
                                      case.languages, case.contexts)
                    /\ LanguageEffect(lang_conditional_toupper,
                                      lang_conditional_toupper', code,
                                      case.upper, special_upper,
                                      case.languages, case.contexts)
               ELSE UNCHANGED <<lang_conditional_tolower,
                                lang_conditional_toupper>>
    ]_vars

\* Three records have been processed, one of each family: U+00DF has an
\* unconditional upper entry only, U+03A3 a conditional lower entry only and
\* U+0069 an upper entry under "tr" only.
C15_Witness ==
    /\ scpc = "done"
    /\ DOMAIN unconditional_toupper = {223}
    /\ unconditional_toupper[223] = <<83, 83>>
    /\ DOMAIN unconditional_tolower = {}
    /\ DOMAIN conditional_tolower = {931}
    /\ conditional_tolower[931] = <<<<962>>, "Final_Sigma">>
    /\ DOMAIN conditional_toupper = {}
    /\ DOMAIN lang_conditional_toupper = {"tr"}
    /\ DOMAIN lang_conditional_toupper["tr"] = {105}
    /\ DOMAIN lang_conditional_tolower = {}

\* The keys of all six buckets.
BucketKeys ==
    DOMAIN unconditional_tolower \cup DOMAIN unconditional_toupper
    \cup DOMAIN conditional_tolower \cup DOMAIN conditional_toupper
    \cup UNION {DOMAIN lang_conditional_tolower[l] :
                   l \in DOMAIN lang_conditional_tolower}
    \cup UNION {DOMAIN lang_conditional_toupper[l] :
                   l \in DOMAIN lang_conditional_toupper}

\* C16: no bucket of a SpecialCasingData that process_special_casing returns
\* has a key <= 0x7F: a record with such a code and a special lower or upper
\* mapping aborts generation.
C16_NoAsciiKeys ==
    scpc = "done" => \A code \in BucketKeys : code > 127

---------------------------------------------------------------------------
(* Claims about generate_non_bmp_info *)

\* The records the loop has visited, and those among them outside the BMP.
NbVisited == DOMAIN nb_code_point_table \ nb_unvisited
NbVisitedNonBmp == {code \in NbVisited : code > MAX_BMP}

\* C17: while generate_non_bmp_info runs and when it has returned,
\* lowercase_map holds (code, lowercase) exactly for the visited records with
\* code > 0xFFFF and lowercase # code, and uppercase_map likewise; every key
\* and value of both maps is > 0xFFFF; no record with code <= 0xFFFF has
\* contributed to any field; and it returns only if no record with code >
\* 0xFFFF has a non-identity case target <= 0xFFFF.
C17_NonBmpCaseMaps ==
    /\ npc \in {"loop", "done"} =>
          /\ lowercase_map =
                 [code \in {c \in NbVisitedNonBmp :
                               nb_code_point_table[c].lowercase # c} |->
                     nb_code_point_table[code].lowercase]
          /\ uppercase_map =
                 [code \in {c \in NbVisitedNonBmp :
                               nb_code_point_table[c].uppercase # c} |->
                     nb_code_point_table[code].uppercase]
          /\ \A code \in DOMAIN lowercase_map :
                 code > MAX_BMP /\ lowercase_map[code] > MAX_BMP
          /\ \A code \in DOMAIN uppercase_map :
                 code > MAX_BMP /\ uppercase_map[code] > MAX_BMP
    /\ \A code \in space_set \cup id_start_set \cup id_continue_set
                    \cup DOMAIN lowercase_map \cup DOMAIN uppercase_map :
          code > MAX_BMP
    /\ npc = "done" =>
          \A code \in DOMAIN nb_code_point_table :
              code > MAX_BMP =>
                LET info == nb_code_point_table[code]
                IN  /\ info.lowercase # code => info.lowercase > MAX_BMP
                    /\ info.uppercase # code => info.uppercase > MAX_BMP

\* A result returned for a registry holding U+0020, U+10400 and U+10428.
C17_Witness ==
    /\ npc = "done"
    /\ DOMAIN nb_code_point_table = {32, 66560, 66600}
    /\ DOMAIN lowercase_map = {66560} /\ lowercase_map[66560] = 66600
    /\ DOMAIN uppercase_map = {66600} /\ uppercase_map[66600] = 66560

\* C18: the space_set of every NonBMPInfo that generate_non_bmp_info returns
\* is empty; a record with code > 0xFFFF and category "Zs" halts generation.
C18_SpaceSetEmpty ==
    npc = "done" => space_set = {}

\* C21: the interner deduplicates by value against the whole
\* bmp_folding_table, Delta(0) at position 0 included: the table never holds
\* the same Delta twice, every interned code is assigned the one position of
\* its delta, and the assertion of a cache miss that the delta is not yet in
\* the table never fails, also for a BMP entry whose delta is 0.
C21_InternerDeduplicates ==
    /\ fpc # "assert!(!bmp_folding_table.contains(&delta))"
    /\ \A i, j \in DOMAIN bmp_folding_table :
          bmp_folding_table[i] = bmp_folding_table[j] => i = j
    /\ \A c \in DOMAIN bmp_folding_index.set :
          bmp_folding_table[bmp_folding_index.set[c] + 1] =
              FoldDelta(c, folding_map[c])

---------------------------------------------------------------------------
(* Further claims about split_table *)

\* Chunk k (0-based) of data for chunks of `size` elements.
ChunkOf(data, size, k) == SubSeq(data, k * size + 1, (k + 1) * size)

\* The contents of the first n chunks of data that differ from every earlier
\* chunk, one after the other in the order of their first occurrence.
RECURSIVE FirstOccurrences(_, _, _)
FirstOccurrences(data, size, n) ==
    IF n = 0 THEN <<>>
    ELSE LET rest == FirstOccurrences(data, size, n - 1)
             last == ChunkOf(data, size, n - 1)
         IN  IF \E j \in 0..(n - 2) : ChunkOf(data, size, j) = last
             THEN rest
             ELSE rest \o last

\* The split s of data identifies chunks by content.
ChunksByContent(data, s) ==
    \E size \in {Pow2(s.shift)} :
    \E n \in {Len(s.index1)} :
        /\ n * size = Len(data)
        /\ \A j, k \in 0..(n - 1) :
              (s.index1[j + 1] = s.index1[k + 1])
                  <=> (ChunkOf(data, size, j) = ChunkOf(data, size, k))
        /\ s.index2 = FirstOccurrences(data, size, n)
        /\ \A k \in 0..(n - 1) :
              \E start \in 0..(Len(s.index2) - size) :
                  /\ start % size = 0
                  /\ SubSeq(s.index2, start + 1, start + size)
                         = ChunkOf(data, size, k)
                  /\ s.index1[k + 1] = ShiftRight(start, s.shift)

\* C22: in the split built for every candidate shift tried, two chunks of t
\* have the same index1 entry iff their contents are equal element by
\* element, index2 is the distinct chunk contents in the order of their first
\* occurrence, each once, and every index1 entry is the start position of
\* its chunk's copy in index2, shifted down by the shift.
C22_ChunksByContent ==
    tried # EmptySplit => ChunksByContent(t, tried)

\* A split built for shift 1 over eight elements whose four chunks have two
\* contents, the repeated one not next to its first occurrence.
C22_Witness ==
    /\ tried # EmptySplit
    /\ tried.shift = 1
    /\ Len(t) = 8
    /\ Len(tried.index2) = 4
    /\ tried.index1 = <<0, 1, 0, 1>>

\* The split built for candidate shift 0 is in `tried`.
TriedShiftZero == tried # EmptySplit /\ tried.shift = 0

\* index1 is the array whose values are their own indexes.
IsIdentityIndex(index1) == \A i \in DOMAIN index1 : index1[i] = i - 1

PairwiseDistinct(data) ==
    \A i, j \in DOMAIN data : data[i] = data[j] => i = j

---------------------------------------------------------------------------
(* Claims about the handling of comments by the readers *)

\* Line k of UnicodeData.txt is empty once everything from '#' onward is
\* dropped.
IsCommentLine(k) == split(file[k], "#")[1] = ""

\* C24: a reader drops everything from '#' onward on a line and skips the
\* line when the remainder is empty: it yields nothing for it, does not abort
\* and continues with the next line.  For the registry reader: no item comes
\* from a comment line, and the reader has not aborted after reading one.
C24_CommentsSkipped ==
    \A k \in heads :
        IsCommentLine(k) => /\ ItemsFrom(k) = <<>>
                            /\ ~ParsePanicked

---------------------------------------------------------------------------
(* Further claims about process_special_casing *)

\* The number of lines of SpecialCasing.txt the reader has read.
ScConsumed == Len(sc_file) - Len(sc_lines)

\* What the reader makes of line k alone.
ScItem(k) == SpecialCasing_next(<<sc_file[k]>>).item

\* process_special_casing has aborted.
ScAborted == scpc \notin {"idle", "loop", "done"}

\* One of the two assertions of special_casing.rs:197-198 has failed.
ScCasingRuleFailed ==
    scpc \in {"assert!(code == default_lower || ...)",
              "assert!(code == default_upper || ...)"}

\* The sequence is the single code `code` while the default case of the code
\* is another code.
RepeatsCode(code, seq, default) == seq = <<code>> /\ default # code

\* The record `case` repeats its own code on the lower or on the upper side
\* against a non-identity default.
BreaksCasingRule(case) ==
    \E d \in {case_info(bmp, case.code)} :
        \/ RepeatsCode(case.code, case.lower, d.lower)
        \/ RepeatsCode(case.code, case.upper, d.upper)

\* C25: process_special_casing aborts on a record whose lower sequence is the
\* single code equal to the record's own code while the default lowercase of
\* the code differs from the code, and likewise on the upper side; the two
\* assertions fail on no other record; and when it returns, every record it
\* processed has, on each side, an identity default or a sequence other than
\* the one-element sequence of the code.
C25_CasingRule ==
    \E items \in {[k \in 1..ScConsumed |-> ScItem(k)]} :
        /\ \A k \in 1..ScConsumed :
              (items[k].kind = "Some" /\ items[k].case.code <= MAX_BMP) =>
                  /\ BreaksCasingRule(items[k].case) =>
                         ScAborted /\ k = ScConsumed
                  /\ (ScCasingRuleFailed /\ k = ScConsumed) =>
                         BreaksCasingRule(items[k].case)
        /\ scpc = "done" =>
              \A k \in 1..ScConsumed :
                  items[k].kind = "Some" =>
                      /\ items[k].case.code <= MAX_BMP
                      /\ ~BreaksCasingRule(items[k].case)

\* A record that keeps U+00DF as its own lowercase, which is its default,
\* has been processed, and the record that gives U+0069 itself as uppercase,
\* against the default U+0049, has failed the assertion.
C25_Witness ==
    /\ scpc = "assert!(code == default_upper || ...)"
    /\ ScConsumed = 2
    /\ ScItem(1).kind = "Some" /\ ScItem(1).case.code = 223
    /\ ScItem(1).case.lower = <<223>>
    /\ ScItem(2).kind = "Some" /\ ScItem(2).case.code = 105
    /\ ScItem(2).case.upper = <<105>>

\* The tokens of the condition list of a line, and those among them that are
\* language tokens (first character lowercase) and context tokens.
ConditionTokens(line) ==
    \* the fifth field of the line up to its comment
    LET fields == split(split(line, "#")[1], ";")
        conditions == IF Len(fields) >= 5 THEN trim(fields[5]) ELSE ""
    IN  IF conditions = "" THEN <<>> ELSE split(conditions, " ")
IsLanguageToken(token) == token # "" /\ is_lowercase(CharAt(token, 1))
LanguageTokens(line) == SelectSeq(ConditionTokens(line), IsLanguageToken)
ContextTokens(line) ==
    SelectSeq(ConditionTokens(line), LAMBDA token : ~IsLanguageToken(token))

\* C26: a step on a special-casing record whose condition list holds more
\* than one language token or more than one context token aborts generation
\* and leaves the buckets alone, so that none is returned; the two assertions
\* on the numbers of languages and contexts fail on no other record; a record
\* with at most one of each that is processed enters the buckets chosen by
\* its language token and context token, under that language and with that
\* context.
C26_OneLanguageOneContext ==
    [][scpc = "loop" =>
        \E r \in {SpecialCasing_next(sc_lines)} :
        r.item.kind = "Some" =>
        \E tokens \in {ConditionTokens(sc_file[Len(sc_file) - Len(r.lines)])} :
        \E languages \in {SelectSeq(tokens, IsLanguageToken)} :
        \E contexts \in
            {SelectSeq(tokens, LAMBDA token : ~IsLanguageToken(token))} :
        \E defaults \in {case_info(bmp, r.item.case.code)} :
        LET case == r.item.case
            code == case.code
            many == Len(languages) > 1 \/ Len(contexts) > 1
            special_lower == case.lower # <<defaults.lower>>
            special_upper == case.upper # <<defaults.upper>>
        IN  /\ many =>
                  /\ scpc' \notin {"loop", "done"}
                  /\ UNCHANGED <<unconditional_tolower, unconditional_toupper,
                                 conditional_tolower, conditional_toupper,
                                 lang_conditional_tolower,
                                 lang_conditional_toupper>>
            /\ scpc' \in {"only 0/1 languages handled",
                          "only 0/1 casing contexts handled"} => many
            /\ (~many /\ scpc' = "loop") =>
                  IF languages # <<>>
                  THEN /\ LanguageEffect(lang_conditional_tolower,
                                         lang_conditional_tolower', code,
                                         case.lower, special_lower,
                                         languages, contexts)
                       /\ LanguageEffect(lang_conditional_toupper,
                                         lang_conditional_toupper', code,
                                         case.upper, special_upper,
                                         languages, contexts)
                  ELSE IF contexts # <<>>
                  THEN /\ ContextEffect(conditional_tolower,
                                        conditional_tolower', code,
                                        case.lower, special_lower, contexts)
                       /\ ContextEffect(conditional_toupper,
                                        conditional_toupper', code,
                                        case.upper, special_upper, contexts)
                  ELSE /\ UnconditionalEffect(unconditional_tolower,
                                              unconditional_tolower', code,
                                              case.lower, special_lower)
                       /\ UnconditionalEffect(unconditional_toupper,
                                              unconditional_toupper', code,
                                              case.upper, special_upper)
    ]_vars

\* The record of U+0307 with the language "lt" and the context
\* After_Soft_Dotted has been classified, and the record with two languages
\* has then aborted generation.
C26_Witness ==
    /\ scpc = "only 0/1 languages handled"
    /\ ScConsumed = 2
    /\ LanguageTokens(sc_file[1]) = <<"lt">>
    /\ ContextTokens(sc_file[1]) = <<"After_Soft_Dotted">>
    /\ DOMAIN lang_conditional_toupper = {"lt"}
    /\ lang_conditional_toupper["lt"][775] = <<<<>>, Some("After_Soft_Dotted")>>
    /\ LanguageTokens(sc_file[2]) = <<"tr", "az">>

---------------------------------------------------------------------------
(* Further claims about generate_bmp_info *)

\* C27: for every registry record with code c <= 0xFFFF that the loop has
\* visited, the SPACE bit of table[index[c]] is set iff the category is "Zs"
\* or c is in WHITE_SPACE or c is in LINE_TERMINATOR; and when
\* generate_bmp_info has returned and compute_white_space returns a set for
\* the same registry, the BMP records with the SPACE bit are the BMP members
\* of that set.
C27_SpaceBit ==
    /\ \A c \in Visited :
          c <= MAX_BMP =>
              (is_space(InfoOf(c).flags)
                  <=> (code_point_table[c].category = "Zs"
                       \/ c \in WHITE_SPACE \/ c \in LINE_TERMINATOR))
    /\ bpc = "done" =>
          \E w \in {compute_white_space(code_point_table)} :
              ~w.panic =>
                  /\ \A c \in DOMAIN code_point_table :
                        c <= MAX_BMP =>
                            (is_space(InfoOf(c).flags) <=> c \in w.space_set)
                  /\ \A c \in w.space_set : c <= MAX_BMP

\* A returned BMPInfo for U+0000, U+0009 and U+0020: the tabulation has the
\* SPACE bit by its code and the space by its category, and U+0000, of the
\* tabulation's category, does not have it.
C27_Witness ==
    /\ bpc = "done"
    /\ DOMAIN code_point_table = {0, 9, 32}
    /\ is_space(InfoOf(9).flags)
    /\ is_space(InfoOf(32).flags)
    /\ ~is_space(InfoOf(0).flags)
    /\ compute_white_space(code_point_table).space_set = {9, 32}

---------------------------------------------------------------------------
(* Claims about the derived-core-properties reader *)

\* The number of lines of DerivedCoreProperties.txt the reader has read.
DcConsumed == Len(dc_file) - Len(dc_lines)

\* The pairs of codes lo..hi with a property, for line k, ascending.
RECURSIVE PairsOf(_, _, _, _)
PairsOf(lo, hi, property, k) ==
    IF lo > hi THEN <<>>
    ELSE <<[code_point |-> lo, property |-> property, line |-> k]>>
         \o PairsOf(lo + 1, hi, property, k)

\* The pairs that line k of the file stands for: those of its single code or
\* of every code of its range; none for a comment, an empty line or a line
\* that is neither form.
DcExpectedOf(k) ==
    LET fields == split(split(dc_file[k], "#")[1], ";")
        codes == split_str(trim(fields[1]), "..")
        lo == from_str_radix_16(codes[1])
        hi == from_str_radix_16(codes[Len(codes)])
    IN  IF Len(fields) < 2 \/ Len(codes) > 2 \/ ~lo.ok \/ ~hi.ok THEN <<>>
        ELSE PairsOf(lo.value, hi.value, trim(fields[2]), k)

\* The pairs of the first n lines, in file order.
RECURSIVE DcExpected(_)
DcExpected(n) ==
    IF n = 0 THEN <<>> ELSE DcExpected(n - 1) \o DcExpectedOf(n)

IsPrefix(a, b) == Len(a) <= Len(b) /\ SubSeq(b, 1, Len(a)) = a

\* The codes yielded with a property.
YieldedWith(property) ==
    {dc_yielded[i].code_point :
        i \in {j \in DOMAIN dc_yielded : dc_yielded[j].property = property}}

\* C28: the pairs the derived-core-properties reader has yielded are, in file
\* order, one pair for the code of every single-code line read and one pair
\* for every code of the inclusive range of every range line read, the range
\* being read possibly not finished; when process_derived_core_properties
\* returns every line has been read and every pair yielded; id_start holds
\* the codes yielded with the property "ID_Start", id_continue those yielded
\* with "ID_Continue", and a pair with another property is in neither by it.
C28_DerivedPairs ==
    /\ \E before \in {IF DcConsumed = 0 THEN <<>>
                     ELSE DcExpected(DcConsumed - 1)} :
       \E upto \in {IF DcConsumed = 0 THEN <<>>
                    ELSE before \o DcExpectedOf(DcConsumed)} :
           /\ IsPrefix(dc_yielded, upto)
           /\ DcConsumed > 0 => IsPrefix(before, dc_yielded)
           /\ (~dc_within_range.some \/ dc_within_range.range.exhausted)
                  => dc_yielded = upto
           /\ dpc = "done" => DcConsumed = Len(dc_file)
    /\ id_start = YieldedWith("ID_Start")
    /\ id_continue = YieldedWith("ID_Continue")

\* A returned result for a range of ID_Start, a single code of ID_Continue
\* and a range of another property.
C28_Witness ==
    /\ dpc = "done"
    /\ Len(dc_yielded) = 6
    /\ id_start = {65, 66, 67}
    /\ id_continue = {95}
    /\ dc_yielded[6].code_point = 171
    /\ dc_yielded[6].property = "Alphabetic"

---------------------------------------------------------------------------
(* Claims about the padding of the input of split_table *)

\* The last chunk of `size` elements of data reaches past its end.
LastChunkOverruns(data, size) ==
    \E i \in 0..(Len(data) - 1) :
        i % size = 0 /\ i + size > Len(data)

\* C29: split_table neither enforces nor repairs the padding of its input:
\* for an input whose length is at least 3 and not a power of two the call
\* never returns a TableSplit; it aborts, at a candidate shift of at most
\* max_shift whose last chunk t[i .. i + 2^shift] reaches past the end of t.
C29_UnpaddedAborts ==
    (Len(t) >= 3 /\ ~IsPowerOfTwo(Len(t))) =>
        /\ pc # "done"
        /\ pc = "loop" => candidate_shift <= max_shift
        /\ pc = "panic" =>
              /\ candidate_shift <= max_shift
              /\ LastChunkOverruns(t, Pow2(candidate_shift))
              /\ \A s \in 0..(candidate_shift - 1) :
                    ~LastChunkOverruns(t, Pow2(s))

\* An input of six elements aborts at shift 2, after the shifts 0 and 1 have
\* produced a split.
C29_Witness ==
    /\ pc = "panic"
    /\ Len(t) = 6
    /\ candidate_shift = 2
    /\ max_shift = 2
    /\ best # EmptySplit

---------------------------------------------------------------------------
(* Claims about the order of the registry's iteration *)

\* The records of a table, as a set.
RecordsOf(tab) == {tab[k] : k \in DOMAIN tab}

\* C30: whatever order the registry's iteration delivers the BMP records in,
\* the decoded information is the same: a returned result agrees with the
\* result of the delivery in ascending code order on table[index[c]] for
\* every BMP code c, and the two tables hold the same set of records, only
\* their positions may differ; and a delivery order aborts only if the
\* ascending one does.
C30_SameDecoding ==
    bpc \notin {"idle", "loop"} =>
        \E ref \in {generate_bmp_info(code_point_table, derived_properties,
                                      Ascending(DOMAIN code_point_table))} :
            /\ (bpc = "done") <=> (ref.bpc = "done")
            /\ bpc = "done" =>
                  /\ \A c \in WatchedCodes :
                        InfoOf(c) = ref.table[IndexAt(ref.index, c) + 1]
                  /\ RecordsOf(table) = RecordsOf(ref.table)

\* A returned result for three records whose table differs from that of the
\* ascending delivery.
C30_Witness ==
    /\ bpc = "done"
    /\ Cardinality(DOMAIN code_point_table) = 3
    /\ Len(table) = 3
    /\ table # generate_bmp_info(code_point_table, derived_properties,
                                 Ascending(DOMAIN code_point_table)).table

=========================================================================
